---------------------------- MODULE Spec2Model ----------------------------
(***************************************************************************)
(* A model of shennong's bottleneck features extractor                     *)
(* (src/shennong/features/bottleneck.py) and of the AudioData operations   *)
(* it relies on (src/shennong/audio.py).                                   *)
(*                                                                         *)
(* Arrays are sequences (1-based; the 0-based source index k is k+1        *)
(* here).  Floating point numbers are fixed-point integers with SC units   *)
(* per 1.0; the value NaN stands for numpy's nan.                          *)
(***************************************************************************)
EXTENDS Integers, Sequences, FiniteSets, TLC

VARIABLES
    fr,     \* a call of _framing: its arguments and what it gave
    vd,     \* a run of _compute_vad: its arguments, its locals, its position
    gp,     \* a call of _gmm_eval_prep: its arguments and what it gave
    nn,     \* a call of _create_nn_extract_st_BN: arguments and results
    pr,     \* a run of BottleneckProcessor.process: its locals, its position
    rng,    \* the state of the generator behind np.random.rand
    th,     \* two calls of process on one processor, and what the caller
            \* does to the generator
    fn      \* a call of one of the functions without state: its name, its
            \* arguments and what it gave

vars == <<fr, vd, gp, nn, pr, rng, th, fn>>

-----------------------------------------------------------------------------
(* Bounds of the model *)

MaxLen == 4          \* longest array handed to _framing on its own
MaxShift == 2        \* largest shift handed to _framing on its own
MaxVadLen == 4       \* longest signal handed to _compute_vad on its own
MaxRealign == 1      \* most rounds asked of _compute_vad on its own
MaxRows == 23        \* most rows handed to the network on its own
MaxBlocks == 15      \* longest signal handed to process, in blocks of 5 ms
MaxChans == 4        \* most bands asked of _mel_fbank_mx on its own
MaxDim == 26         \* largest dimension asked of _uppertri_indices

-----------------------------------------------------------------------------
(* Generic helpers *)

Min2(a, b) == IF a <= b THEN a ELSE b

Max2(a, b) == IF a >= b THEN a ELSE b

Abs(a) == IF a < 0 THEN -a ELSE a

\* Python's int() of the quotient a/b of two integers: truncation toward zero
TruncDiv(a, b) ==
    IF b > 0
    THEN (IF a >= 0 THEN a \div b ELSE -((-a) \div b))
    ELSE (IF a >= 0 THEN -(a \div (-b)) ELSE (-a) \div (-b))

\* The sequence f, with its items computed
Vec(f) == f \o <<>>

\* The one element of a set of one element.  The(\{e(x) : x \in \{v\}\}) is
\* e(v) with v computed once, however often e uses it.
The(S) == CHOOSE x \in S : TRUE

\* All sequences over S of length lo..hi
SeqsOf(S, lo, hi) == UNION {[1..n -> S] : n \in lo..hi}

-----------------------------------------------------------------------------
(* Floating point numbers, at the model's resolution.                      *)
(* A finite number x is the integer round(x * SC).  NaN, PosInf and NegInf *)
(* are numpy's nan, inf and -inf; the F-operators below follow IEEE        *)
(* arithmetic on them (0/0 = nan, x/0 = inf, log 0 = -inf, inf - inf =     *)
(* nan, any comparison with nan is false).                                 *)

Digits == 4                     \* decimal digits kept after the point
SC == 10^Digits                 \* 1.0
LN2 == 6931                     \* ln 2
LOG2PI == 18379                 \* ln(2 pi)
PosInf == 2 * 10^9
NegInf == -PosInf
NaN == PosInf + 1

IsFinite(x) == x > NegInf /\ x < PosInf

Sgn(x) == IF x > 0 THEN 1 ELSE IF x < 0 THEN -1 ELSE 0

\* a * b of two finite numbers (the larger factor is split, so that only a
\* product beyond the number range overflows)
Mul(a, b) ==
    LET x == IF Abs(a) >= Abs(b) THEN a ELSE b
        y == IF Abs(a) >= Abs(b) THEN b ELSE a
    IN  (x \div SC) * y + ((x % SC) * y + SC \div 2) \div SC

\* k more decimal digits of r / b, for 0 <= r < b
RECURSIVE DivFrac(_, _, _)
DivFrac(r, b, k) ==
    IF k = 0 THEN 0
    ELSE ((r * 10) \div b) * 10^(k - 1) + DivFrac((r * 10) % b, b, k - 1)

\* a / b of two finite numbers, b # 0
Div(a, b) ==
    LET n == Abs(a)
        d == Abs(b)
        q == (n \div d) * SC + DivFrac(n % d, d, Digits)
    IN  IF (a >= 0) = (b > 0) THEN q ELSE -q

\* floor(sqrt(n)) of a natural number, by bisection
RECURSIVE ISqrtIn(_, _, _)
ISqrtIn(n, lo, hi) ==
    IF lo >= hi THEN lo
    ELSE LET mid == (lo + hi + 1) \div 2
         IN  IF mid * mid <= n THEN ISqrtIn(n, mid, hi)
             ELSE ISqrtIn(n, lo, mid - 1)

ISqrt(n) == ISqrtIn(n, 0, 46340)

\* sqrt(x) of a finite number x >= 0
Sqrt(x) == IF x <= 20 * SC THEN ISqrt(x * SC) ELSE ISqrt(x * 100) * 10

\* e^r for 0 <= r < ln 2: the Taylor series
RECURSIVE ExpTerms(_, _, _)
ExpTerms(r, t, n) ==
    IF n > 8 THEN 0
    ELSE LET u == Mul(t, r) \div n IN u + ExpTerms(r, u, n + 1)

\* e^x of a finite number
Exp(x) ==
    IF x < -12 * SC THEN 0
    ELSE IF x > 12 * SC THEN PosInf
    ELSE LET k == x \div LN2
             e == SC + ExpTerms(x - k * LN2, SC, 1)
         IN  IF k >= 0 THEN e * 2^k ELSE (e + 2^(-k - 1)) \div 2^(-k)

\* ln(x) for 1 <= x < 2: 2 atanh((x - 1) / (x + 1))
RECURSIVE LnTerms(_, _, _)
LnTerms(t, z2, n) ==
    IF n > 9 THEN 0
    ELSE LET u == Mul(t, z2) IN u \div n + LnTerms(u, z2, n + 2)

LnNorm(x) ==
    LET z == Div(x - SC, x + SC)
    IN  2 * (z + LnTerms(z, Mul(z, z), 3))

\* ln(x) of a finite number x > 0
RECURSIVE LnRed(_, _)
LnRed(x, k) ==
    IF x >= 2 * SC THEN LnRed(x \div 2, k + 1)
    ELSE IF x < SC THEN LnRed(x * 2, k - 1)
    ELSE LnNorm(x) + k * LN2

Ln(x) == LnRed(x, 0)

FNeg(a) == IF a = NaN THEN NaN ELSE -a

FAdd(a, b) ==
    IF a = NaN \/ b = NaN THEN NaN
    ELSE IF ~IsFinite(a) THEN (IF b = -a THEN NaN ELSE a)
    ELSE IF ~IsFinite(b) THEN b
    ELSE a + b

FSub(a, b) == FAdd(a, FNeg(b))

FMul(a, b) ==
    IF a = NaN \/ b = NaN THEN NaN
    ELSE IF ~IsFinite(a) \/ ~IsFinite(b)
    THEN (IF a = 0 \/ b = 0 THEN NaN
          ELSE IF Sgn(a) = Sgn(b) THEN PosInf ELSE NegInf)
    ELSE Mul(a, b)

FDiv(a, b) ==
    IF a = NaN \/ b = NaN THEN NaN
    ELSE IF ~IsFinite(a) THEN (IF ~IsFinite(b) THEN NaN
                               ELSE IF (a > 0) = (b >= 0) THEN PosInf ELSE NegInf)
    ELSE IF ~IsFinite(b) THEN 0
    ELSE IF b = 0 THEN (IF a = 0 THEN NaN ELSE IF a > 0 THEN PosInf ELSE NegInf)
    ELSE Div(a, b)

FLog(a) ==
    IF a = NaN \/ a < 0 THEN NaN
    ELSE IF a = 0 THEN NegInf
    ELSE IF a = PosInf THEN PosInf
    ELSE Ln(a)

FExp(a) ==
    IF a = NaN THEN NaN
    ELSE IF a = NegInf THEN 0
    ELSE IF a = PosInf THEN PosInf
    ELSE Exp(a)

\* numpy's max: nan wins
FMax(a, b) == IF a = NaN \/ b = NaN THEN NaN ELSE Max2(a, b)

\* a < b as numpy evaluates it
FLess(a, b) == a # NaN /\ b # NaN /\ a < b

RECURSIVE FSum(_)
FSum(s) ==
    IF s = <<>> THEN 0
    ELSE IF Len(s) = 1 THEN s[1]
    ELSE FAdd(FSum(SubSeq(s, 1, Len(s) \div 2)),
              FSum(SubSeq(s, Len(s) \div 2 + 1, Len(s))))

RECURSIVE FMaxOf(_)
FMaxOf(s) == IF Len(s) = 1 THEN s[1] ELSE FMax(Head(s), FMaxOf(Tail(s)))

\* the dot product of two vectors
FDot(u, v) == FSum(Vec([i \in 1..Len(u) |-> FMul(u[i], v[i])]))

\* whether an array of numbers holds nan or an infinity
NonFinite(s) == \E i \in 1..Len(s) : ~IsFinite(s[i])

-----------------------------------------------------------------------------
(* _framing(a, window, shift): a strided view on a *)

\* FramingRows without the last, possibly partial, step: the + 1 forgotten
FramingRowsNoPlusOne(n, window, shift) == TruncDiv(n - window, shift)

\* shape[0] = int((a.shape[0] - window) / shift + 1), shift # 0
FramingRows(n, window, shift) == TruncDiv(n - window + shift, shift)

\* The item the view shows at row i, column j (0-based): the strides are
\* (st * shift, st), so it lies i*shift + j items after the start of a.
\* Outside a's buffer the view shows whatever the memory holds: garbage.
FramingItem(a, shift, i, j, garbage) ==
    LET k == i * shift + j
    IN  IF k >= 0 /\ k < Len(a) THEN a[k + 1] ELSE garbage

\* The outcome of the call: an exception, or the frame matrix
Framing(a, window, shift, garbage) ==
    IF shift = 0
    THEN [exc |-> "ZeroDivisionError", rows |-> <<>>]
    ELSE IF window < 0 \/ FramingRows(Len(a), window, shift) < 0
    THEN [exc |-> "ValueError", rows |-> <<>>]
    ELSE [exc |-> "none",
          rows |-> Vec([i \in 1..FramingRows(Len(a), window, shift) |->
                      Vec([j \in 1..window |->
                          FramingItem(a, shift, i - 1, j - 1, garbage)])])]

-----------------------------------------------------------------------------
(* The Gaussian mixture model.  A matrix is the sequence of its rows.      *)
(* lib is what the installed libraries do where their versions and their   *)
(* settings differ: lib.warnErr, whether the warnings filter turns numpy's *)
(* RuntimeWarning into an exception; lib.floatDim, whether numpy accepts a *)
(* float as an array dimension (before 1.12) or raises TypeError.          *)

Libs == [warnErr : BOOLEAN, floatDim : BOOLEAN]

RECURSIVE ConcatAll(_)
ConcatAll(ss) == IF ss = <<>> THEN <<>> ELSE Head(ss) \o ConcatAll(Tail(ss))

\* np.arange(lo, hi)
Arange(lo, hi) == Vec([i \in 1..(hi - lo) |-> lo + i - 1])

\* whether a matrix holds nan or an infinity
NonFiniteMx(m) == \E i \in 1..Len(m) : NonFinite(m[i])

\* the indices of the upper triangle row after row: (0,0), (0,1), ...
UppertriIndicesByRow(dim, isdiag) ==
    IF isdiag
    THEN [utr |-> Arange(0, dim), utc |-> Arange(0, dim)]
    ELSE [utr |-> ConcatAll(Vec([n \in 1..dim |->
                     Vec([k \in 1..(dim - n + 1) |-> n - 1])])),
          utc |-> ConcatAll(Vec([n \in 1..dim |-> Arange(n - 1, dim)]))]

\* _uppertri_indices(dim, isdiag): 0-based row and column indices, for
\* dim >= 1
UppertriIndices(dim, isdiag) ==
    IF isdiag
    THEN [utr |-> Arange(0, dim), utc |-> Arange(0, dim)]
    ELSE [utr |-> ConcatAll(Vec([n \in 1..dim |-> Arange(0, dim - n + 1)])),
          utc |-> ConcatAll(Vec([n \in 1..dim |-> Arange(n - 1, dim)]))]

\* -0.5 * x
NegHalf(x) == FMul(-(SC \div 2), x)

\* _inv_posdef_and_logdet(M) of the 2x2 matrix ((a, b), (b, d)): numpy's
\* cholesky raises LinAlgError unless both pivots are positive
InvPosdefAndLogdet(a, d, b) ==
    IF a <= 0 THEN [exc |-> "LinAlgError"]
    ELSE LET l11 == Sqrt(a)
             l21 == FDiv(b, l11)
             t == d - Mul(l21, l21)
         IN  IF l11 = 0 \/ t <= 0 \/ Sqrt(t) = 0 THEN [exc |-> "LinAlgError"]
             ELSE LET det == Mul(a, d) - Mul(b, b)
                  IN  [exc |-> "none",
                       logdet |-> 2 * (Ln(l11) + Ln(Sqrt(t))),
                       inv |-> << <<FDiv(d, det), FDiv(-b, det)>>,
                                  <<FDiv(-b, det), FDiv(a, det)>> >>]

\* the diagonal branch of _gmm_eval_prep for component k
PrepDiagInvCov(covs, k) == Vec([d \in 1..Len(covs[k]) |-> FDiv(SC, covs[k][d])])

PrepDiagConst2(means, covs, k) ==
    NegHalf(FAdd(FSum(Vec([d \in 1..Len(covs[k]) |->
                         FAdd(FLog(covs[k][d]),
                              FMul(FMul(means[k][d], means[k][d]),
                                   PrepDiagInvCov(covs, k)[d]))])),
                 Len(means[k]) * LOG2PI))

\* the weight = 0 case of _gmm_eval_prep: an uninitialised single gaussian
PrepZeroWeight(G) ==
    [G EXCEPT !.invCovs = Vec([k \in 1..Len(G.invCovs) |->
                              Vec([d \in 1..Len(G.invCovs[k]) |-> 0])]),
              !.invCovMeans = Vec([k \in 1..Len(G.invCovMeans) |->
                                  Vec([d \in 1..Len(G.invCovMeans[k]) |-> 0])]),
              !.gconsts = <<SC>>]

PrepFinish(weights, G) ==
    IF Len(weights) = 1 /\ weights[1] = 0 THEN PrepZeroWeight(G) ELSE G

PrepDiag(weights, means, covs, ut) ==
    [utr |-> ut.utr, utc |-> ut.utc,
     invCovs |-> Vec([k \in 1..Len(weights) |-> PrepDiagInvCov(covs, k)]),
     gconsts |-> Vec([k \in 1..Len(weights) |->
                     FAdd(FLog(weights[k]), PrepDiagConst2(means, covs, k))]),
     gconsts2 |-> Vec([k \in 1..Len(weights) |-> PrepDiagConst2(means, covs, k)]),
     invCovMeans |-> Vec([k \in 1..Len(weights) |->
                         Vec([d \in 1..Len(means[k]) |->
                             FMul(PrepDiagInvCov(covs, k)[d], means[k][d])])])]

\* the full covariance branch, for dim = 2: covs[k] = (c00, c11, c01)
PrepFullOne(weights, means, covs, k) ==
    The({
        IF r.exc # "none" THEN r
        ELSE The({
             The({[exc |-> "none",
                   gconst |-> FAdd(FLog(weights[k]), c2),
                   gconst2 |-> c2,
                   invCovMean |-> icm,
                   \* invCovs[:, dim:] *= 2.0
                   invCov |-> <<r.inv[1][1], r.inv[2][2],
                                FMul(2 * SC, r.inv[1][2])>>] :
                 c2 \in {NegHalf(FAdd(FAdd(r.logdet, FDot(means[k], icm)),
                                      2 * LOG2PI))}}) :
             icm \in {Vec([i \in 1..2 |-> FDot(r.inv[i], means[k])])}}) :
        r \in {InvPosdefAndLogdet(covs[k][1], covs[k][2], covs[k][3])}})

PrepFull(weights, means, covs, ut) ==
    The({
        IF \E k \in 1..Len(weights) : one[k].exc # "none"
        THEN [exc |-> "LinAlgError"]
        ELSE [exc |-> "none",
              gmm |-> [utr |-> ut.utr, utc |-> ut.utc,
                       invCovs |-> Vec([k \in 1..Len(weights) |-> one[k].invCov]),
                       gconsts |-> Vec([k \in 1..Len(weights) |-> one[k].gconst]),
                       gconsts2 |-> Vec([k \in 1..Len(weights) |-> one[k].gconst2]),
                       invCovMeans |->
                           Vec([k \in 1..Len(weights) |-> one[k].invCovMean])]] :
        one \in {Vec([k \in 1..Len(weights) |->
                         PrepFullOne(weights, means, covs, k)])}})

\* numpy warns (divide by zero, invalid value) where an operation on finite
\* numbers gives nan or an infinity
PrepWarns(weights, means, covs, G) ==
    /\ ~NonFinite(weights) /\ ~NonFiniteMx(means) /\ ~NonFiniteMx(covs)
    /\ \/ NonFinite(G.gconsts) \/ NonFiniteMx(G.invCovs)
       \/ NonFiniteMx(G.invCovMeans)

\* _gmm_eval_prep(weights, means, covs): [exc, gmm]
GmmEvalPrep(weights, means, covs, lib) ==
    LET dim == Len(means[1])
        isFull == Len(covs[1]) # dim
    IN  IF isFull
        THEN (IF ~lib.floatDim THEN [exc |-> "TypeError"]
              ELSE The({
                       IF r.exc # "none" THEN r
                       ELSE IF lib.warnErr
                               /\ PrepWarns(weights, means, covs, r.gmm)
                       THEN [exc |-> "RuntimeWarning"]
                       ELSE [exc |-> "none",
                             gmm |-> PrepFinish(weights, r.gmm)] :
                       r \in {PrepFull(weights, means, covs,
                                       UppertriIndices(dim, FALSE))}}))
        ELSE The({
                 IF lib.warnErr /\ PrepWarns(weights, means, covs, G)
                 THEN [exc |-> "RuntimeWarning"]
                 ELSE [exc |-> "none", gmm |-> PrepFinish(weights, G)] :
                 G \in {PrepDiag(weights, means, covs,
                                 UppertriIndices(dim, TRUE))}})

\* data[:, utr] * data[:, utc]: the quadratic expansion of the data
DataSqr(data, G) ==
    Vec([i \in 1..Len(data) |->
        Vec([p \in 1..Len(G.utr) |->
            FMul(data[i][G.utr[p] + 1], data[i][G.utc[p] + 1])])])

\* the log-likelihoods of every frame under every component
Gamma(data, G) ==
    The({
        Vec([i \in 1..Len(data) |->
            Vec([k \in 1..Len(G.gconsts) |->
                FAdd(FAdd(NegHalf(FDot(sq[i], G.invCovs[k])),
                          FDot(data[i], G.invCovMeans[k])),
                     G.gconsts[k])])]) :
        sq \in {DataSqr(data, G)}})

\* _gmm_llhs(data, GMM)
GmmLlhs(data, G) == Gamma(data, G)

\* _logsumexp of one row (axis = 1 of a matrix)
LogSumExp(x) ==
    The({
        IF ~IsFinite(xmax) THEN xmax
        ELSE FAdd(xmax,
                  FLog(FSum(Vec([k \in 1..Len(x) |-> FExp(FSub(x[k], xmax))])))) :
        xmax \in {FMaxOf(x)}})

\* _gmm_eval(data, GMM, return_accums = 2): [llh, N, F, S]
GmmEval(data, G) ==
    LET K == Len(G.gconsts)
    IN
    The({The({The({
        [llh |-> llh,
         N |-> Vec([k \in 1..K |-> FSum(resp[k])]),
         F |-> Vec([k \in 1..K |->
                   Vec([d \in 1..Len(G.invCovMeans[k]) |->
                       FDot(resp[k], Vec([i \in 1..Len(data) |-> data[i][d]]))])]),
         S |-> Vec([k \in 1..K |->
                   Vec([p \in 1..Len(G.utr) |->
                       FDot(resp[k], Vec([i \in 1..Len(data) |-> sq[i][p]]))])])] :
        \* exp(gamma.T - llh): row k holds the responsibilities of component k
        resp \in {Vec([k \in 1..K |->
                      Vec([i \in 1..Len(data) |->
                          FExp(FSub(gamma[i][k], llh[i]))])])}}) :
        llh \in {Vec([i \in 1..Len(data) |-> LogSumExp(gamma[i])])}}) :
        gamma \in {Gamma(data, G)}, sq \in {DataSqr(data, G)}})

\* _gmm_update(N, F, S): [weights, means, covs]
GmmUpdate(N, F, S) ==
    LET dim == Len(F[1])
    IN
    The({
        [weights |-> Vec([k \in 1..Len(N) |-> FDiv(N[k], sumN)]),
         means |-> means,
         covs |-> Vec([k \in 1..Len(N) |->
                     Vec([p \in 1..Len(S[k]) |->
                         FSub(FDiv(S[k][p], N[k]),
                              FMul(means[k][ut.utr[p] + 1],
                                   means[k][ut.utc[p] + 1]))])])] :
        ut \in {UppertriIndices(dim, Len(S[1]) = dim)},
        sumN \in {FSum(N)},
        means \in {Vec([k \in 1..Len(N) |->
                       Vec([d \in 1..dim |-> FDiv(F[k][d], N[k])])])}})

-----------------------------------------------------------------------------
(* _compute_vad(s, win_length, win_overlap, n_realignment, threshold).     *)
(* A run is a record v; VadEnter, VadRealign and VadDecide are the three   *)
(* parts of the function body: up to the loop, one round of the loop, and  *)
(* from the loop to the return.                                            *)

\* round(a / n) for a natural number n > 0
RoundDiv(a, n) == (2 * a + n) \div (2 * n)

\* the initial model: mm, ee, ww
InitMeans == << <<-SC>>, <<0>>, <<SC>> >>
InitCovs == << <<SC>>, <<SC>>, <<SC>> >>
InitWeight == 33 * 10^(Digits - 2)
InitWeights == <<InitWeight, InitWeight, InitWeight>>

\* threshold=0.3, the default
Threshold == 3 * 10^(Digits - 1)

\* The type of the samples, dtype, is "float64" or "int16".  An array of
\* 16-bit integers holds the integers themselves; an array of floats holds
\* numbers at the model's resolution.

\* what a 16-bit integer keeps of x: x modulo 2^16, in -2^15 .. 2^15 - 1
Int16(x) == ((x + 2^15) % 2^16) - 2^15

\* s = s ** 2, or s = s.astype(np.float64) ** 2 with bugfix: the power of an
\* integer array is an integer array of the same type, the squares wrap
Square(s, dtype, bugfix) ==
    Vec([k \in 1..Len(s) |->
            IF dtype # "int16" THEN Mul(s[k], s[k])
            ELSE IF bugfix THEN s[k] * s[k] * SC
            ELSE Int16(s[k] * s[k])])

\* the energies of frames taken win_overlap samples apart
VadEnergyApart(s, dtype, win_length, win_overlap, bugfix) ==
    LET sq == Square(s, dtype, bugfix)
        F == Framing(sq, win_length, win_overlap, 0)
        one == IF dtype = "int16" /\ ~bugfix THEN SC ELSE 1
    IN  IF F.exc # "none" THEN [exc |-> F.exc, E |-> <<>>]
        ELSE [exc |-> "none",
              E |-> Vec([i \in 1..Len(F.rows) |-> FSum(F.rows[i]) * one])]

\* s ** 2, framed and summed: the energy of every frame.  The sum of an
\* int16 array is taken in the platform's integer, then made a float.
VadEnergy(s, dtype, win_length, win_overlap, bugfix) ==
    LET sq == Square(s, dtype, bugfix)
        F == Framing(sq, win_length, win_length - win_overlap, 0)
        one == IF dtype = "int16" /\ ~bugfix THEN SC ELSE 1
    IN  IF F.exc # "none" THEN [exc |-> F.exc, E |-> <<>>]
        ELSE [exc |-> "none",
              E |-> Vec([i \in 1..Len(F.rows) |-> FSum(F.rows[i]) * one])]

\* E -= E.mean(); E /= E.std(): an empty E stays empty
VadCentre(E) ==
    LET mean == RoundDiv(FSum(E), Len(E))
    IN  Vec([i \in 1..Len(E) |-> E[i] - mean])

\* E.std() of the centred energies: small ones are squared at full
\* resolution, so that a small spread is not rounded away
VadStd(C) ==
    IF \A i \in 1..Len(C) : Abs(C[i]) <= SC
    THEN ISqrt(RoundDiv(FSum(Vec([i \in 1..Len(C) |-> C[i] * C[i]])), Len(C)))
    ELSE Sqrt(RoundDiv(FSum(Vec([i \in 1..Len(C) |-> Mul(C[i], C[i])])),
                       Len(C)))

VadNormalise(C) == Vec([i \in 1..Len(C) |-> FDiv(C[i], VadStd(C))])

\* the except branch: log is not a name of the module (the class holds the
\* logger), so log.warning raises NameError before out is set
VadOnlySilence(v) ==
    [v EXCEPT !.pc = "raised", !.exc = "NameError", !.handled = TRUE]

\* the state of a run at the call
VadCall(s, dtype, win_length, win_overlap, n_realignment, threshold, bugfix, lib) ==
    [s |-> s, dtype |-> dtype, bugfix |-> bugfix, win_length |-> win_length, win_overlap |-> win_overlap,
     n |-> n_realignment, threshold |-> threshold, lib |-> lib,
     pc |-> "call", i |-> 0, energy |-> <<>>, E |-> <<>>,
     ww |-> <<>>, mm |-> <<>>, ee |-> <<>>, GMM |-> <<>>,
     evalOf |-> -1, stats |-> <<>>, updates |-> 0,
     post0 |-> <<>>, out |-> <<>>, exc |-> "none", handled |-> FALSE]

\* from the call to the loop
VadEnter(v) ==
    The({
        IF en.exc # "none" THEN [v EXCEPT !.pc = "raised", !.exc = en.exc]
        ELSE IF en.E = <<>>
        THEN \* the mean of an empty array: nan, and numpy warns
             (IF v.lib.warnErr
              THEN [v EXCEPT !.pc = "raised", !.exc = "RuntimeWarning"]
              ELSE [v EXCEPT !.pc = "loop", !.ww = InitWeights,
                             !.mm = InitMeans, !.ee = InitCovs,
                             !.GMM = g.gmm])
        ELSE The({
                 IF v.lib.warnErr /\ NonFinite(E)
                 THEN VadOnlySilence([v EXCEPT !.energy = en.E])
                 ELSE [v EXCEPT !.pc = "loop", !.energy = en.E,
                                !.E = Vec([i \in 1..Len(E) |-> <<E[i]>>]),
                                !.ww = InitWeights, !.mm = InitMeans,
                                !.ee = InitCovs, !.GMM = g.gmm] :
                 E \in {VadNormalise(VadCentre(en.E))}}) :
        en \in {VadEnergy(v.s, v.dtype, v.win_length, v.win_overlap, v.bugfix)},
        g \in {GmmEvalPrep(InitWeights, InitMeans, InitCovs, v.lib)}})

\* numpy warns where finite statistics give a nan or an infinity
UpdateWarns(st, u) ==
    /\ ~NonFinite(st.N) /\ ~NonFiniteMx(st.F) /\ ~NonFiniteMx(st.S)
    /\ NonFinite(u.weights) \/ NonFiniteMx(u.means) \/ NonFiniteMx(u.covs)

\* a round that re-estimates from the statistics of the round before, where
\* there was one
VadRealignStale(v) ==
    The({The({The({
        IF (v.lib.warnErr /\ UpdateWarns(st, u)) \/ g.exc = "RuntimeWarning"
        THEN VadOnlySilence(v)
        ELSE IF g.exc # "none" THEN [v EXCEPT !.pc = "raised", !.exc = g.exc]
        ELSE [v EXCEPT !.i = v.i + 1, !.stats = [N |-> st.N, F |-> st.F, S |-> st.S],
                       !.evalOf = v.updates, !.updates = v.updates + 1,
                       !.ww = u.weights, !.mm = u.means, !.ee = u.covs,
                       !.GMM = g.gmm] :
        g \in {GmmEvalPrep(u.weights, u.means, u.covs, v.lib)}}) :
        u \in {IF v.stats = <<>> THEN GmmUpdate(st.N, st.F, st.S)
               ELSE GmmUpdate(v.stats.N, v.stats.F, v.stats.S)}}) :
        st \in {GmmEval(v.E, v.GMM)}})

\* one round of the loop
VadRealign(v) ==
    The({The({The({
        IF (v.lib.warnErr /\ UpdateWarns(st, u)) \/ g.exc = "RuntimeWarning"
        THEN VadOnlySilence(v)
        ELSE IF g.exc # "none" THEN [v EXCEPT !.pc = "raised", !.exc = g.exc]
        ELSE [v EXCEPT !.i = v.i + 1, !.stats = [N |-> st.N, F |-> st.F, S |-> st.S],
                       !.evalOf = v.updates, !.updates = v.updates + 1,
                       !.ww = u.weights, !.mm = u.means, !.ee = u.covs,
                       !.GMM = g.gmm] :
        g \in {GmmEvalPrep(u.weights, u.means, u.covs, v.lib)}}) :
        u \in {GmmUpdate(st.N, st.F, st.S)}}) :
        st \in {GmmEval(v.E, v.GMM)}})

\* Marked with the comparison the other way round
MarkedAbove(post, threshold) == ~FLess(post, threshold)

\* whether a frame with this posterior of component 0 is marked
Marked(post, threshold) == FLess(post, threshold)

\* from the loop to the return
VadDecide(v) ==
    The({The({
        [v EXCEPT !.pc = "returned", !.post0 = post0,
                  !.out = Vec([i \in 1..Len(post0) |->
                              Marked(post0[i], v.threshold)])] :
        post0 \in {Vec([i \in 1..Len(v.E) |->
                       FExp(FSub(llhs[i][1], LogSumExp(llhs[i])))])}}) :
        llhs \in {GmmLlhs(v.E, v.GMM)}})

\* the whole call
RECURSIVE VadRun(_)
VadRun(v) ==
    IF v.pc = "call" THEN The({VadRun(w) : w \in {VadEnter(v)}})
    ELSE IF v.pc = "loop" /\ v.i < v.n
    THEN The({VadRun(w) : w \in {VadRealign(v)}})
    ELSE IF v.pc = "loop" THEN VadDecide(v)
    ELSE v

-----------------------------------------------------------------------------
(* The stacked network: _sigmoid_fun, _create_nn_extract_st_BN *)

\* a[start:stop] on the rows of a, with Python's negative and clipped indices
PyIndex(i, n) == IF i < 0 THEN Max2(i + n, 0) ELSE Min2(i, n)

PySlice(a, start, stop) ==
    SubSeq(a, PyIndex(start, Len(a)) + 1, PyIndex(stop, Len(a)))

\* a[start:]
PySliceFrom(a, start) == SubSeq(a, PyIndex(start, Len(a)) + 1, Len(a))

\* np.hstack of matrices: ValueError unless all have the same number of rows
HStack(ms) ==
    IF \E k \in 1..Len(ms) : Len(ms[k]) # Len(ms[1])
    THEN [exc |-> "ValueError", m |-> <<>>]
    ELSE [exc |-> "none",
          m |-> Vec([r \in 1..Len(ms[1]) |->
                    ConcatAll(Vec([k \in 1..Len(ms) |-> ms[k][r]]))])]

\* the splice with every offset one row short
SpliceShort(Y) ==
    HStack(<<PySlice(Y, 0, -20), PySlice(Y, 4, -16), PySlice(Y, 8, -12),
             PySlice(Y, 12, -8), PySliceFrom(Y, 20)>>)

\* np.hstack([Y[0:-20], Y[5:-15], Y[10:-10], Y[15:-5], Y[20:]])
Splice(Y) ==
    HStack(<<PySlice(Y, 0, -20), PySlice(Y, 5, -15), PySlice(Y, 10, -10),
             PySlice(Y, 15, -5), PySliceFrom(Y, 20)>>)

\* 1 / (1 + np.exp(-x))
SigmoidFun(x) == FDiv(SC, FAdd(SC, FExp(FNeg(x))))

\* (X + mean) * std, mean and std broadcast over the rows
AffineRows(X, mean, std) ==
    Vec([r \in 1..Len(X) |->
        Vec([j \in 1..Len(X[r]) |-> FMul(FAdd(X[r][j], mean[j]), std[j])])])

\* Y.dot(W) + b
DotPlus(Y, W, b) ==
    Vec([r \in 1..Len(Y) |->
        Vec([j \in 1..Len(b) |->
            FAdd(FSum(Vec([i \in 1..Len(W) |-> FMul(Y[r][i], W[i][j])])),
                 b[j])])])

SigmoidRows(Y) ==
    Vec([r \in 1..Len(Y) |-> Vec([j \in 1..Len(Y[r]) |-> SigmoidFun(Y[r][j])])])

\* the keys of the weight bundle: 'W' + str(i), 'b' + str(i), and the five
\* named entries
WKey(i) == <<"W", i>>
BKey(i) == <<"b", i>>
InputMeanKey == <<"input_mean", 0>>
InputStdKey == <<"input_std", 0>>
BnMeanKey == <<"bn_mean", 0>>
BnStdKey == <<"bn_std", 0>>
ContextKey == <<"context", 0>>

\* num_of_layers = int((len(param_dict.keys()) - 5) / 2)
NumOfLayers(param_dict) == TruncDiv(Cardinality(DOMAIN param_dict) - 5, 2)

\* the layers of a loop over enumerate([sigmoid] * count + [linear]), the
\* layer of round ii read from index ii + first: a negative count is none
RECURSIVE Layers(_, _, _, _, _)
Layers(Y, param_dict, first, count, used) ==
    IF ~({WKey(first), BKey(first)} \subseteq DOMAIN param_dict)
    THEN [exc |-> "KeyError", Y |-> Y, used |-> used]
    ELSE The({
             IF count <= 0
             THEN [exc |-> "none", Y |-> Z, used |-> Append(used, first)]
             ELSE Layers(SigmoidRows(Z), param_dict, first + 1, count - 1,
                         Append(used, first)) :
             Z \in {DotPlus(Y, param_dict[WKey(first)],
                            param_dict[BKey(first)])}})

\* stage 2 reads the layer of round ii from index ii + 2, the index right
\* after the bottleneck layer
Stage2FirstNext(bn_position) == bn_position + 2

\* 'W' + str(ii + bn_position + 3): the index of the first stage-2 layer
Stage2First(bn_position) == bn_position + 3

\* _create_nn_extract_st_BN(X, param_dict, bn_position)
NNFail(exc, used) ==
    [exc |-> exc, Y1 |-> <<>>, Y |-> <<>>, spliced |-> <<>>, used |-> used]

CreateNnExtractStBN(X, param_dict, bn_position) ==
    IF ~({InputMeanKey, InputStdKey} \subseteq DOMAIN param_dict)
    THEN NNFail("KeyError", <<>>)
    ELSE
    The({
        IF st1.exc # "none" THEN NNFail(st1.exc, st1.used)
        ELSE
        The({
            IF sp.exc # "none" THEN NNFail(sp.exc, st1.used)
            ELSE IF ~({BnMeanKey, BnStdKey} \subseteq DOMAIN param_dict)
            THEN NNFail("KeyError", st1.used)
            ELSE
            The({
                IF st2.exc # "none" THEN NNFail(st2.exc, st2.used)
                ELSE [exc |-> "none", Y1 |-> st2.Y, Y |-> st1.Y,
                      spliced |-> sp.m, used |-> st2.used] :
                st2 \in {Layers(AffineRows(sp.m, param_dict[BnMeanKey],
                                           param_dict[BnStdKey]),
                                param_dict, Stage2First(bn_position),
                                NumOfLayers(param_dict) - bn_position - 2,
                                st1.used)}}) :
            sp \in {Splice(st1.Y)}}) :
        st1 \in {Layers(AffineRows(X, param_dict[InputMeanKey],
                                   param_dict[InputStdKey]),
                        param_dict, 1, bn_position, <<>>)}})

-----------------------------------------------------------------------------
(* The mel filterbank: _mel, _mel_inv, _mel_fbank_mx.  Frequencies and     *)
(* mels are floats; fs, nfft, numchans and the bin indices are integers.   *)

\* _mel(x) = 1127 * log(1 + x / 700)
Mel(x) == FMul(1127 * SC, FLog(FAdd(SC, FDiv(x, 700 * SC))))

\* _mel_inv(x) = (exp(x / 1127) - 1) * 700
MelInv(x) == FMul(FSub(FExp(FDiv(x, 1127 * SC)), SC), 700 * SC)

\* the least power of two that is not below n, from p on
RECURSIVE NextPow2(_, _)
NextPow2(n, p) == IF p >= n THEN p ELSE NextPow2(n, 2 * p)

\* nfft: the power of two of a positive window length, minus a negative one
MelNfft(winlen_nfft) ==
    IF winlen_nfft > 0 THEN NextPow2(winlen_nfft, 1) ELSE -winlen_nfft

\* fbin_mel: the mel of every bin, np.arange(nfft / 2 + 1) * fs / nfft
FbinMel(nfft, fs) ==
    Vec([k \in 1..((nfft + 3) \div 2) |-> Mel(Div((k - 1) * fs, nfft))])

\* cbin_mel = np.linspace(_mel(lofreq), _mel(hifreq), numchans + 2)
CbinMel(lofreq, hifreq, numchans) ==
    Vec([j \in 1..(numchans + 2) |->
        Mel(lofreq) + RoundDiv((j - 1) * (Mel(hifreq) - Mel(lofreq)),
                               numchans + 1)])

\* cind = np.floor(_mel_inv(cbin_mel) / fs * nfft).astype(int) + 1
Cind(cbin_mel, fs, nfft) ==
    Vec([j \in 1..Len(cbin_mel) |->
        ((MelInv(cbin_mel[j]) * nfft) \div (fs * SC)) + 1])

\* whether row k (from 0) lies in the slice start:stop of n rows
InSlice(k, start, stop, n) == PyIndex(start, n) <= k /\ k < PyIndex(stop, n)

\* the bin where the falling side of band i (from 0) ends, taken one centre
\* too far
MelFallEndLate(cind, i) == cind[Min2(i + 4, Len(cind))]

\* the bin where the falling side of band i (from 0) ends: cind[i+2]
MelFallEnd(cind, i) == cind[i + 3]

\* mfb[k, i] as iteration i of the loop leaves it: the falling side is
\* assigned after the rising side
MelWeight(k, i, cind, cbin_mel, fbin_mel) ==
    IF InSlice(k, cind[i + 2], MelFallEnd(cind, i), Len(fbin_mel))
    THEN FDiv(cbin_mel[i + 3] - fbin_mel[k + 1],
              cbin_mel[i + 3] - cbin_mel[i + 2])
    ELSE IF InSlice(k, cind[i + 1], cind[i + 2], Len(fbin_mel))
    THEN FDiv(cbin_mel[i + 1] - fbin_mel[k + 1],
              cbin_mel[i + 1] - cbin_mel[i + 2])
    ELSE 0

\* if lofreq > 0.0 and float(lofreq) / fs * nfft + 0.5 > cind[0]
MelHtk(lofreq, fs, nfft, cind) ==
    lofreq > 0 /\ Div(lofreq * nfft, fs * SC) + SC \div 2 > cind[1] * SC

\* _mel_fbank_mx(winlen_nfft, fs, numchans, lofreq, hifreq): [exc, mfb];
\* hifreq = 0 stands for None as well.  The row cind[0] is set to zero in
\* every iteration, which raises IndexError when the matrix has no such row.
MelFbankMx(winlen_nfft, fs, numchans, lofreq, hifreq) ==
    The({The({The({The({
        IF numchans > 0 /\ MelHtk(lofreq, fs, nfft, cind)
           /\ (cind[1] >= Len(fbin_mel) \/ cind[1] < -Len(fbin_mel))
        THEN [exc |-> "IndexError", mfb |-> <<>>, cind |-> cind]
        ELSE [exc |-> "none", cind |-> cind,
              mfb |-> Vec([r \in 1..Len(fbin_mel) |->
                  Vec([c \in 1..numchans |->
                      IF MelHtk(lofreq, fs, nfft, cind)
                         /\ r - 1 = cind[1] % Len(fbin_mel)
                      THEN 0
                      ELSE MelWeight(r - 1, c - 1, cind, cbin_mel,
                                     fbin_mel)])])] :
        cind \in {Cind(cbin_mel, fs, nfft)}}) :
        cbin_mel \in {CbinMel(lofreq, IF hifreq = 0 THEN (fs * SC) \div 2
                                      ELSE hifreq, numchans)}}) :
        fbin_mel \in {FbinMel(nfft, fs)}}) :
        nfft \in {MelNfft(winlen_nfft)}})

-----------------------------------------------------------------------------
(* BottleneckProcessor.process and what it calls: AudioData.resample,
   _add_dither, _fbank_htk, _preprocess_nn_input, the timestamps *)

TargetRate == 8000
FrameLength == 200
FrameOverlap == 120
GlobalCtx == 15
\* the bottleneck position taken from the bundle of the run: the index that
\* its layer names leave out, less 2
BnPositionOfBundle ==
    LET named == {i \in 1..Cardinality(DOMAIN pr.weights_data) :
                     WKey(i) \in DOMAIN pr.weights_data}
        gaps == {i \in 1..Cardinality(DOMAIN pr.weights_data) :
                    i \notin named /\ i - 1 \in named /\ i + 1 \in named}
    IN  IF gaps = {} THEN 2 ELSE (CHOOSE i \in gaps : TRUE) - 2

\* _create_nn_extract_st_BN(nn_input, self._weights_data, 2)
BnPosition == 2
NRealignment == 5
DitherLevel == SC \div 10

\* scipy.signal.resample(data, nsamples) is not code of the repository: the
\* model keeps the number of samples, and takes each from the sample of the
\* input at the same time, so that a silent signal stays silent
ResampleData(data, nsamples) ==
    Vec([k \in 1..nsamples |-> data[((k - 1) * Len(data)) \div nsamples + 1]])

\* nsamples with the quotient rounded up
ResampleNsamplesUp(nsamples, sample_rate, rate) ==
    (nsamples * sample_rate + rate - 1) \div rate

\* nsamples = int(self.nsamples * sample_rate / self.sample_rate)
ResampleNsamples(nsamples, sample_rate, rate) ==
    TruncDiv(nsamples * sample_rate, rate)

\* whether resample returns self
ResampleSelf(audio, sample_rate) == sample_rate = audio.sample_rate

\* scipy.signal.resample raises ValueError when asked for no sample at all
\* (the inverse transform of no point)
ResampleRaises(audio, sample_rate) ==
    /\ ~ResampleSelf(audio, sample_rate)
    /\ ResampleNsamples(Len(audio.data), sample_rate, audio.sample_rate) < 1

\* AudioData.resample(sample_rate), where it does not raise: the samples
\* are floats here, which astype(self.dtype) leaves as they are
Resample(audio, sample_rate) ==
    IF ResampleSelf(audio, sample_rate) THEN audio
    ELSE [audio EXCEPT
             !.data = ResampleData(audio.data,
                                   ResampleNsamples(Len(audio.data),
                                                    sample_rate,
                                                    audio.sample_rate)),
             !.sample_rate = sample_rate]

\* np.random.rand: the generator is global to the interpreter; the model
\* gives it a short cycle of values of [0, 1)
RandTable ==
    <<0, SC \div 2, SC \div 5, SC \div 2, (9 * SC) \div 10, SC \div 10,
      SC \div 10>>

\* the draws of a generator that is seeded afresh before every draw
RandSeeded(state, n) ==
    Vec([k \in 1..n |-> RandTable[((k - 1) % Len(RandTable)) + 1]])

Rand(state, n) ==
    Vec([k \in 1..n |-> RandTable[((state + k - 1) % Len(RandTable)) + 1]])

RandAfter(state, n) == (state + n) % Len(RandTable)

\* _add_dither(signal, level), drawn being what np.random.rand gave
AddDither(signal, level, drawn) ==
    Vec([k \in 1..Len(signal) |->
        signal[k] + Mul(level, 2 * drawn[k] - SC)])

\* the filterbank with the frames taken noverlap samples apart
FbankHtkApart(x, window_size, noverlap) ==
    LET F == Framing(x, window_size, noverlap, 0)
    IN  IF F.exc # "none" THEN [exc |-> F.exc, fea |-> <<>>, starts |-> <<>>]
        ELSE [exc |-> "none",
              starts |-> Vec([i \in 1..Len(F.rows) |-> (i - 1) * noverlap]),
              fea |-> Vec([i \in 1..Len(F.rows) |->
                  <<FLog(FMax(SC, FSum(Vec([j \in 1..window_size |->
                        Mul(F.rows[i][j], F.rows[i][j])]))))>>])]

\* _fbank_htk(x, window, noverlap, fbank_mx), the spectral analysis reduced
\* to one band that passes the whole spectrum under a flat window: a row
\* holds the log of the energy of its frame, floored at log(1.0); starts
\* holds the sample at which each frame begins
FbankHtk(x, window_size, noverlap) ==
    LET F == Framing(x, window_size, window_size - noverlap, 0)
    IN  IF F.exc # "none" THEN [exc |-> F.exc, fea |-> <<>>, starts |-> <<>>]
        ELSE [exc |-> "none",
              starts |-> Vec([i \in 1..Len(F.rows) |->
                             (i - 1) * (window_size - noverlap)]),
              fea |-> Vec([i \in 1..Len(F.rows) |->
                  <<FLog(FMax(SC, FSum(Vec([j \in 1..window_size |->
                        Mul(F.rows[i][j], F.rows[i][j])]))))>>])]

\* NoVoice that only sees a mask with no frame at all
NoVoiceIfEmpty(vad) == vad = <<>>

\* not sum(vad)
NoVoice(vad) == Cardinality({i \in 1..Len(vad) : vad[i]}) = 0

\* the mean taken over every frame, voiced or not
MeanNormaliseAll(fea, vad) ==
    LET mean == Vec([j \in 1..Len(fea[1]) |->
                    FDiv(FSum(Vec([k \in 1..Len(fea) |-> fea[k][j]])),
                         Len(fea) * SC)])
    IN  Vec([i \in 1..Len(fea) |->
            Vec([j \in 1..Len(fea[i]) |-> FSub(fea[i][j], mean[j])])])

\* fea -= np.mean(fea[vad], axis=0)
MeanNormalise(fea, vad) ==
    LET voiced == SelectSeq(Vec([i \in 1..Len(fea) |-> i]),
                            LAMBDA i : vad[i])
        mean == Vec([j \in 1..Len(fea[1]) |->
                    FDiv(FSum(Vec([k \in 1..Len(voiced) |->
                                  fea[voiced[k]][j]])),
                         Len(voiced) * SC)])
    IN  Vec([i \in 1..Len(fea) |->
            Vec([j \in 1..Len(fea[i]) |-> FSub(fea[i][j], mean[j])])])

\* the padding with the first frame repeated at both ends
PadContextFirst(fea, left_ctx, right_ctx) ==
    Vec([i \in 1..(left_ctx + Len(fea) + right_ctx) |->
        fea[IF i - left_ctx \in 1..Len(fea) THEN i - left_ctx ELSE 1]])

\* np.r_[np.repeat(fea[[0]], left_ctx), fea, np.repeat(fea[[-1]], right_ctx)]
PadContext(fea, left_ctx, right_ctx) ==
    Vec([i \in 1..(left_ctx + Len(fea) + right_ctx) |->
        fea[Max2(1, Min2(Len(fea), i - left_ctx))]])

\* the first column of hamming_dct: np.hamming(window) times the constant
\* sqrt(2 / window) that replaces the first basis vector
HammingDct(window) ==
    IF window = 9
    THEN <<377, 1012, 2546, 4079, 4714, 4079, 2546, 1012, 377>>
    ELSE IF window = 11
    THEN <<341, 716, 1696, 2909, 3889, 4264, 3889, 2909, 1696, 716, 341>>
    ELSE Vec([t \in 1..window |-> Sqrt((2 * SC) \div window)])

\* _preprocess_nn_input with frames taken one row too long
PreprocessNnInputWide(X, left_ctx, right_ctx) ==
    LET window == left_ctx + 1 + right_ctx
        F == Framing(X, window + 1, 1, <<>>)
    IN  IF F.exc # "none" THEN [exc |-> F.exc, m |-> <<>>]
        ELSE [exc |-> "none",
              m |-> Vec([i \in 1..Len(F.rows) |->
                  Vec([b \in 1..Len(X[1]) |->
                      FSum(Vec([t \in 1..window |->
                          FMul(F.rows[i][t][b], HammingDct(window)[t])]))])])]

\* _preprocess_nn_input(X, left_ctx, right_ctx), the six coefficients of a
\* band reduced to the first
PreprocessNnInput(X, left_ctx, right_ctx) ==
    LET window == left_ctx + 1 + right_ctx
        F == Framing(X, window, 1, <<>>)
    IN  IF F.exc # "none" THEN [exc |-> F.exc, m |-> <<>>]
        ELSE [exc |-> "none",
              m |-> Vec([i \in 1..Len(F.rows) |->
                  Vec([b \in 1..Len(X[1]) |->
                      FSum(Vec([t \in 1..window |->
                          FMul(F.rows[i][t][b], HammingDct(window)[t])]))])])]

\* int(sample_rate * span / 8000), where sample_rate = nframes / duration
\* and duration = nsamples / rate
SamplesPer(nframes, nsamples, rate, span) ==
    (nframes * rate * span) \div (TargetRate * nsamples)

\* Frames.boundaries(nframes): the first sample and the sample past the last
\* of every frame
FramesBoundaries(nframes, per_frame, per_shift) ==
    Vec([i \in 1..nframes |->
        <<(i - 1) * per_shift, (i - 1) * per_shift + per_frame>>])

\* times = (boundaries / sample_rate).mean(axis=1), in seconds
TimesOf(bounds, nsamples, rate) ==
    Vec([i \in 1..Len(bounds) |->
        RoundDiv((bounds[i][1] + bounds[i][2]) * nsamples * SC,
                 2 * Len(bounds) * rate)])

\* the assertion left out
DurationAnywhere(bounds) == TRUE

\* times[-2] <= duration <= times[-1], compared without rounding
DurationInLastFrame(bounds) ==
    LET n == Len(bounds)
    IN  /\ bounds[n - 1][1] + bounds[n - 1][2] <= 2 * n
        /\ 2 * n <= bounds[n][1] + bounds[n][2]

\* the names of the pretrained weights, each with its file
ExpectedFiles == {"BabelMulti", "FisherMono", "FisherTri"}

\* BottleneckProcessor.available_weights(), files being the weights files
\* found in the directory (none also where the directory is not found)
AvailableWeights(files) ==
    IF files = {} THEN [exc |-> "RuntimeError", files |-> {}]
    ELSE IF files # ExpectedFiles THEN [exc |-> "NameError", files |-> {}]
    ELSE [exc |-> "none", files |-> files]

\* the state of a run at the call of process on a processor made for the
\* weights BabelMulti
ProcCall(audio, weights_data, lib) ==
    [weights |-> "BabelMulti", files |-> ExpectedFiles,
     audio |-> audio, weights_data |-> weights_data, lib |-> lib,
     pc |-> "Loaded", steps |-> <<"Loaded">>, drawn |-> <<>>,
     signal |-> <<>>, context |-> 0, starts |-> <<>>, fea |-> <<>>,
     energy |-> <<>>, vad |-> <<>>,
     padded |-> <<>>, nn_input |-> <<>>, used |-> <<>>, nn_output |-> <<>>, times |-> <<>>,
     frames |-> [frame_shift |-> 0, frame_length |-> 0],
     exc |-> "none", returned |-> FALSE]

\* the steps of a run, in the order of the statements of process
Pipeline ==
    <<"Loaded", "Resampled", "FrontEnded", "VoicedDetected", "Normalized",
      "Encoded", "Evaluated", "Timestamped">>

\* Follows that goes from the mask straight to the context encoding
FollowsSkipping(pc) ==
    IF pc = "VoicedDetected" THEN "Encoded"
    ELSE Pipeline[(CHOOSE k \in 1..(Len(Pipeline) - 1) : Pipeline[k] = pc) + 1]

\* where a step that does not raise leaves the run
Follows(pc) ==
    Pipeline[(CHOOSE k \in 1..(Len(Pipeline) - 1) : Pipeline[k] = pc) + 1]

Reach(p) ==
    [p EXCEPT !.pc = Follows(p.pc), !.steps = Append(p.steps, Follows(p.pc))]

Fail(p, exc) == [p EXCEPT !.pc = "Failed", !.exc = exc]

\* BottleneckProcessor.__init__(weights), called in the state "New" where
\* weights_data is what the file of the weights holds: np.load keeps the
\* file as it is, no entry of it is read
ProcInit(p) ==
    The({
        IF a.exc # "none" THEN Fail(p, a.exc)
        ELSE IF p.weights \notin a.files THEN Fail(p, "ValueError")
        ELSE [p EXCEPT !.pc = "Loaded", !.steps = <<"Loaded">>] :
        a \in {AvailableWeights(p.files)}})

\* duration = signal.duration; signal = signal.resample(8000).data;
\* signal = _add_dither(signal, 0.1)
ProcResample(p, state) ==
    LET data == Resample(p.audio, TargetRate).data
        drawn == Rand(state, Len(data))
    IN  IF ResampleRaises(p.audio, TargetRate) THEN Fail(p, "ValueError")
        ELSE Reach([p EXCEPT !.drawn = drawn,
                             !.signal = AddDither(data, DitherLevel, drawn)])

\* the context of the bundle, then fea = _fbank_htk(...)
ProcFrontEnd(p) ==
    IF ContextKey \notin DOMAIN p.weights_data THEN Fail(p, "KeyError")
    ELSE LET f == FbankHtk(p.signal, FrameLength, FrameOverlap)
         IN  IF f.exc # "none" THEN Fail(p, f.exc)
             ELSE Reach([p EXCEPT !.fea = f.fea, !.starts = f.starts,
                                  !.context = p.weights_data[ContextKey]])

\* vad = _compute_vad(signal, win_length, win_overlap)
ProcVad(p) ==
    The({
        IF v.pc = "raised" THEN Fail(p, v.exc)
        ELSE Reach([p EXCEPT !.vad = v.out, !.energy = v.energy]) :
        v \in {VadRun(VadCall(p.signal, "float64", FrameLength, FrameOverlap,
                              NRealignment, Threshold, FALSE, p.lib))}})

\* the check of the voiced frames, then the mean normalisation
ProcNormalise(p) ==
    IF NoVoice(p.vad) THEN Fail(p, "RuntimeError")
    ELSE Reach([p EXCEPT !.fea = MeanNormalise(p.fea, p.vad)])

\* the padding, then nn_input = _preprocess_nn_input(...)
ProcEncode(p) ==
    The({The({
        IF e.exc # "none" THEN Fail([p EXCEPT !.padded = fea], e.exc)
        ELSE Reach([p EXCEPT !.padded = fea, !.nn_input = e.m]) :
        e \in {PreprocessNnInput(fea, p.context, p.context)}}) :
        fea \in {PadContext(p.fea, GlobalCtx, GlobalCtx)}})

\* nn_output = np.vstack(_create_nn_extract_st_BN(...)[0])
ProcForward(p) ==
    The({
        IF r.exc # "none" THEN Fail([p EXCEPT !.used = r.used], r.exc)
        ELSE Reach([p EXCEPT !.nn_output = r.Y1, !.used = r.used]) :
        r \in {CreateNnExtractStBN(p.nn_input, p.weights_data, BnPosition)}})

\* the timestamps, the assertion on them and the return; frames holds the
\* frame_shift and the frame_length given to Frames, in units of 1/8000 s
ProcTimestamps(p) ==
    LET n == Len(p.nn_output)
        nsamples == Len(p.audio.data)
        rate == p.audio.sample_rate
        given == [frame_shift |-> FrameOverlap, frame_length |-> FrameLength]
        bounds == FramesBoundaries(
                      n, SamplesPer(n, nsamples, rate, given.frame_length),
                      SamplesPer(n, nsamples, rate, given.frame_shift))
    IN  IF n < 2 THEN Fail(p, "IndexError")
        ELSE IF ~DurationInLastFrame(bounds)
        THEN Fail([p EXCEPT !.frames = given], "AssertionError")
        ELSE [Reach(p) EXCEPT !.frames = given,
                              !.times = TimesOf(bounds, nsamples, rate),
                              !.returned = TRUE]

\* the statements of process that come next in a run
ProcStep(p, state) ==
    CASE p.pc = "Loaded" -> ProcResample(p, state)
      [] p.pc = "Resampled" -> ProcFrontEnd(p)
      [] p.pc = "FrontEnded" -> ProcVad(p)
      [] p.pc = "VoicedDetected" -> ProcNormalise(p)
      [] p.pc = "Normalized" -> ProcEncode(p)
      [] p.pc = "Encoded" -> ProcForward(p)
      [] p.pc = "Evaluated" -> ProcTimestamps(p)
      [] OTHER -> p

\* BottleneckProcessor.process run from its call to its end with nothing
\* else running, the generator being in the given state at the call
RECURSIVE Process(_, _)
Process(p, state) ==
    IF p.pc \in {"Timestamped", "Failed"} THEN p
    ELSE The({Process(q, state) : q \in {ProcStep(p, state)}})

-----------------------------------------------------------------------------
(* What the variables hold while their part of the program is not running *)

FrIdle ==
    [a |-> <<>>, window |-> 0, shift |-> 0, called |-> FALSE,
     exc |-> "none", rows |-> <<>>]

VdIdle ==
    VadCall(<<>>, "float64", 0, 0, 0, 0, FALSE,
            [warnErr |-> FALSE, floatDim |-> FALSE])

GpIdle ==
    [weights |-> <<>>, means |-> <<>>, covs |-> <<>>,
     lib |-> [warnErr |-> FALSE, floatDim |-> FALSE],
     called |-> FALSE, exc |-> "none", gmm |-> <<>>]

NnIdle ==
    [X |-> <<>>, param_dict |-> <<>>, bn_position |-> 0, called |-> FALSE,
     exc |-> "none", Y1 |-> <<>>, Y |-> <<>>, spliced |-> <<>>, used |-> <<>>]

PrIdle ==
    [ProcCall([data |-> <<>>, sample_rate |-> TargetRate], <<>>,
              [warnErr |-> FALSE, floatDim |-> FALSE])
     EXCEPT !.pc = "Idle", !.steps = <<>>]

ThIdle ==
    [calls |-> <<>>, start |-> 0, at |-> <<>>, seeded |-> FALSE,
     apart |-> TRUE]

FnIdle == [f |-> "none", called |-> FALSE]

Idle(v) ==
    /\ "fr" \in v \/ fr = FrIdle
    /\ "vd" \in v \/ vd = VdIdle
    /\ "gp" \in v \/ gp = GpIdle
    /\ "nn" \in v \/ nn = NnIdle
    /\ "pr" \in v \/ (pr = PrIdle /\ ("th" \in v \/ rng = 0))
    /\ "th" \in v \/ th = ThIdle
    /\ "fn" \in v \/ fn = FnIdle

-----------------------------------------------------------------------------
(* Specification of _compute_vad on its own *)

VadSamples == {0, SC, 2 * SC}

\* 16-bit samples: 362 * 362 = 131044 is beyond the 16-bit range
VadSamples16 == {0, 1, 362}

\* the arrays _compute_vad is called with: floats, or 16-bit integers (the
\* large ones without bugfix only, their exact squares being beyond the
\* model's number range)
VadArrays ==
    {[s |-> s, dtype |-> "float64", bugfix |-> FALSE] :
        s \in SeqsOf(VadSamples, 1, MaxVadLen)}
    \cup {[s |-> s, dtype |-> "int16", bugfix |-> FALSE] :
              s \in SeqsOf(VadSamples16, 2, MaxVadLen - 1)}
    \cup {[s |-> s, dtype |-> "int16", bugfix |-> TRUE] :
              s \in SeqsOf({0, 1}, 2, MaxVadLen - 1)}

\* every array with up to MaxRealign rounds, the float arrays of three
\* samples with one round more
InitVad ==
    /\ Idle({"vd"})
    /\ \E a \in VadArrays :
       \E n \in 0..(MaxRealign + 1) :
       \E lib \in Libs :
           /\ n <= MaxRealign \/ (a.dtype = "float64" /\ Len(a.s) = 3)
           /\ vd = VadCall(a.s, a.dtype, 2, 1, n, Threshold, a.bugfix, lib)

VadEnterStep ==
    /\ vd.pc = "call"
    /\ vd' = VadEnter(vd)
    /\ UNCHANGED <<fr, gp, nn, pr, rng, th, fn>>

VadRealignStep ==
    /\ vd.pc = "loop" /\ vd.i < vd.n
    /\ vd' = VadRealign(vd)
    /\ UNCHANGED <<fr, gp, nn, pr, rng, th, fn>>

VadDecideStep ==
    /\ vd.pc = "loop" /\ vd.i >= vd.n
    /\ vd' = VadDecide(vd)
    /\ UNCHANGED <<fr, gp, nn, pr, rng, th, fn>>

NextVad == VadEnterStep \/ VadRealignStep \/ VadDecideStep

SpecVad == InitVad /\ [][NextVad]_vars

\* C6 as claimed: in the mask _compute_vad returns, a frame is False when its
\* posterior of the first component is below the threshold and True
\* otherwise.
C6_AsClaimed ==
    vd.pc = "returned"
    => \A i \in 1..Len(vd.out) :
         vd.out[i] = ~(IsFinite(vd.post0[i]) /\ vd.post0[i] < vd.threshold)

\* C6 amended: in the mask _compute_vad returns, a frame is True exactly when
\* its posterior of the first component is below the threshold, and False
\* otherwise, which includes a posterior that is not a number.
C6_MaskBelowThreshold ==
    vd.pc = "returned"
    => /\ Len(vd.out) = Len(vd.post0)
       /\ \A i \in 1..Len(vd.out) :
            vd.out[i] = (IsFinite(vd.post0[i]) /\ vd.post0[i] < vd.threshold)

\* C6 happens: a returned mask with frames on both sides of the threshold
C6_Witness ==
    /\ vd.pc = "returned"
    /\ \E i, j \in 1..Len(vd.out) :
         /\ vd.out[i] /\ ~vd.out[j]
         /\ IsFinite(vd.post0[i]) /\ IsFinite(vd.post0[j])
         /\ vd.post0[i] < vd.threshold /\ vd.post0[j] > vd.threshold

\* C7 as claimed: when the energies of the frames all have the same value,
\* _compute_vad raises nothing and returns a mask with one entry a frame,
\* every entry False.
C7_AsClaimed ==
    (/\ vd.pc \in {"returned", "raised"}
     /\ vd.energy # <<>>
     /\ \A i \in 1..Len(vd.energy) : vd.energy[i] = vd.energy[1])
    => /\ vd.pc = "returned" /\ vd.exc = "none"
       /\ Len(vd.out) = Len(vd.energy)
       /\ \A i \in 1..Len(vd.out) : ~vd.out[i]

\* C8 as claimed: whenever _compute_vad holds a mixture, the three weights
\* are non-negative and sum to 1 (to the rounding of the arithmetic).
C8_AsClaimed ==
    vd.pc \in {"loop", "returned"}
    => /\ \A k \in 1..Len(vd.ww) : IsFinite(vd.ww[k]) /\ vd.ww[k] >= 0
       /\ Abs(FSum(vd.ww) - SC) <= 3

\* the exact energy of frame i (from 1) of a run on 16-bit samples: the sum
\* of the squares of the frame's samples
ExactEnergy16(v, i) ==
    LET shift == v.win_length - v.win_overlap
        at(j) == v.s[(i - 1) * shift + j]
    IN  FSum(Vec([j \in 1..v.win_length |-> at(j) * at(j)]))

\* C21 as claimed: the energy _compute_vad computes for a frame, with its
\* default arguments, is the exact sum of the squares of the frame's samples,
\* hence not negative, also for 16-bit integer samples of large magnitude.
C21_AsClaimed ==
    (vd.pc \in {"loop", "returned"} /\ ~vd.bugfix /\ vd.energy # <<>>)
    => \A i \in 1..Len(vd.energy) :
         /\ vd.energy[i] >= 0
         /\ vd.dtype = "int16"
            => /\ vd.energy[i] % SC = 0
               /\ vd.energy[i] \div SC = ExactEnergy16(vd, i)

\* what a round gives from the run v, as the claim has it: the statistics
\* of v.E against the state v.GMM, the parameters re-estimated from those
\* statistics, the state prepared from those parameters
RoundOf(v) ==
    The({The({The({
        [stats |-> [N |-> st.N, F |-> st.F, S |-> st.S],
         ww |-> u.weights, mm |-> u.means, ee |-> u.covs, GMM |-> g.gmm] :
        g \in {GmmEvalPrep(u.weights, u.means, u.covs, v.lib)}}) :
        u \in {GmmUpdate(st.N, st.F, st.S)}}) :
        st \in {GmmEval(v.E, v.GMM)}})

\* the posteriors of the first component of every frame against a state
PosteriorsOf(E, G) ==
    The({Vec([i \in 1..Len(E) |->
             FExp(FSub(llhs[i][1], LogSumExp(llhs[i])))]) :
         llhs \in {GmmLlhs(E, G)}})

\* C25: a _compute_vad run with iteration count n performs exactly n rounds,
\* each being: evaluate the statistics against the current state, re-estimate
\* from those statistics, re-prepare the state from the re-estimated
\* parameters; the statistics of one round are never used in a later round,
\* and the final posteriors are computed against the state prepared from the
\* last re-estimation (the initial state when n = 0).  Step by step: the
\* loop is entered with the initial state and no round done; a step that
\* stays in the loop is one round, counted, on the statistics it evaluates
\* itself; the run returns only after n rounds, with the posteriors against
\* the state the last round left.
C25_Rounds ==
    [][/\ (vd.pc = "call" /\ vd'.pc = "loop")
          => /\ vd'.i = 0 /\ vd'.updates = 0 /\ vd'.stats = <<>>
             /\ vd'.GMM = GmmEvalPrep(InitWeights, InitMeans, InitCovs,
                                      vd.lib).gmm
       /\ (vd.pc = "loop" /\ vd'.pc = "loop")
          => /\ vd.i < vd.n /\ vd'.i = vd.i + 1
             /\ vd'.updates = vd.updates + 1 /\ vd'.evalOf = vd.updates
             /\ \E r \in {RoundOf(vd)} :
                    /\ vd'.stats = r.stats
                    /\ vd'.ww = r.ww /\ vd'.mm = r.mm /\ vd'.ee = r.ee
                    /\ vd'.GMM = r.GMM
       /\ (vd.pc = "loop" /\ vd'.pc = "returned")
          => /\ vd.i = vd.n /\ vd'.updates = vd.n
             /\ vd'.GMM = vd.GMM /\ vd'.stats = vd.stats
             /\ vd'.post0 = PosteriorsOf(vd.E, vd.GMM)
       /\ vd'.pc = "returned" => vd.pc = "loop"
      ]_vars

\* C25 happens: a run of two rounds that returned a mask with frames of
\* both kinds, from a mixture that the rounds changed
C25_Witness ==
    /\ vd.pc = "returned" /\ vd.n = 2 /\ vd.updates = 2 /\ vd.evalOf = 1
    /\ vd.ww # InitWeights
    /\ \E i, j \in 1..Len(vd.out) : vd.out[i] /\ ~vd.out[j]

-----------------------------------------------------------------------------
(* Specification of _framing on its own *)

FrVals == {1, 2}
Garbage == {0, 9}

InitFr ==
    /\ Idle({"fr"})
    /\ \E a \in SeqsOf(FrVals, 0, MaxLen) :
       \E w \in 0..(MaxLen + 2) :
       \E s \in (-MaxShift)..MaxShift :
           fr = [FrIdle EXCEPT !.a = a, !.window = w, !.shift = s]

FramingCall ==
    /\ ~fr.called
    /\ \E g \in Garbage :
       \E r \in {Framing(fr.a, fr.window, fr.shift, g)} :
           fr' = [fr EXCEPT !.called = TRUE, !.exc = r.exc, !.rows = r.rows]
    /\ UNCHANGED <<vd, gp, nn, pr, rng, th, fn>>

SpecFraming == InitFr /\ [][FramingCall]_vars

\* C4: with 1 <= shift <= window <= N, _framing returns floor((N - window) /
\* shift) + 1 rows, and row i holds the samples i*shift .. i*shift + window - 1
\* of the input, in order (rows and samples counted from 0).
C4_FramingContract ==
    (fr.called /\ 1 <= fr.shift /\ fr.shift <= fr.window
               /\ fr.window <= Len(fr.a))
    => /\ fr.exc = "none"
       /\ Len(fr.rows) = (Len(fr.a) - fr.window) \div fr.shift + 1
       /\ \A i \in 1..Len(fr.rows) :
            /\ Len(fr.rows[i]) = fr.window
            /\ \A j \in 1..fr.window :
                 fr.rows[i][j] = fr.a[(i - 1) * fr.shift + j]

\* C4 happens: a call that gave several overlapping rows
C4_Witness ==
    /\ fr.called /\ fr.shift = 1 /\ fr.window = 2 /\ Len(fr.a) = 4
    /\ fr.a[1] # fr.a[2]
    /\ Len(fr.rows) = 3

\* C5 as claimed: with window > N or shift < 1, _framing fails and returns no
\* frame matrix, not even an empty one.
C5_AsClaimed ==
    (fr.called /\ (fr.window > Len(fr.a) \/ fr.shift < 1))
    => fr.exc # "none"

-----------------------------------------------------------------------------
(* Specification of _gmm_eval_prep on its own, beside the runs of
   _compute_vad that call it *)

PrepWeights == {0, SC \div 2, SC}
PrepMeans == {-SC, 0, SC}
PrepVars == {-SC, 0, SC, 4 * SC}
PrepCross == {-SC, 0, SC, 2 * SC}

\* a single gaussian with a diagonal covariance in one dimension, or with a
\* full covariance, packed as (c00, c11, c01), in two
PrepInputs ==
    {[GpIdle EXCEPT !.weights = <<w>>, !.means = <<<<m>>>>,
                    !.covs = <<<<c>>>>, !.lib = lib] :
        w \in PrepWeights, m \in PrepMeans, c \in PrepVars, lib \in Libs}
    \cup
    {[GpIdle EXCEPT !.weights = <<w>>, !.means = <<<<m, 0>>>>,
                    !.covs = <<<<c[1], c[2], x>>>>, !.lib = lib] :
        w \in PrepWeights \ {0}, m \in PrepMeans,
        c \in PrepVars \X PrepVars, x \in PrepCross, lib \in Libs}

InitGmm ==
    /\ Idle({"gp", "vd"})
    /\ \/ gp \in PrepInputs /\ vd = VdIdle
       \/ /\ gp = GpIdle
          /\ \E s \in SeqsOf(VadSamples, 1, MaxVadLen) :
             \E n \in 0..MaxRealign :
             \E lib \in Libs :
                 vd = VadCall(s, "float64", 2, 1, n, Threshold, FALSE, lib)

PrepCall ==
    /\ gp.weights # <<>> /\ ~gp.called
    /\ \E r \in {GmmEvalPrep(gp.weights, gp.means, gp.covs, gp.lib)} :
           gp' = [gp EXCEPT !.called = TRUE, !.exc = r.exc,
                            !.gmm = IF r.exc = "none" THEN r.gmm ELSE <<>>]
    /\ UNCHANGED <<fr, vd, nn, pr, rng, th, fn>>

NextGmm == PrepCall \/ NextVad

SpecGmm == InitGmm /\ [][NextGmm]_vars

\* C9 as claimed: _gmm_eval_prep returns no state for a covariance with a
\* non-positive variance, diagonal or full: it fails.
C9_AsClaimed ==
    (gp.called /\ \E d \in 1..Len(gp.means[1]) : gp.covs[1][d] <= 0)
    => gp.exc # "none"

\* C22 as claimed: when _gmm_eval_prep is given a single component whose
\* weight is 0, the state it returns has its inverse covariance and its
\* inverse covariance times mean set to zero and its log-normalisation
\* constant set to 0.
C22_AsClaimed ==
    (gp.called /\ gp.exc = "none" /\ gp.weights = <<0>>)
    => /\ \A d \in 1..Len(gp.gmm.invCovs[1]) : gp.gmm.invCovs[1][d] = 0
       /\ \A d \in 1..Len(gp.gmm.invCovMeans[1]) :
            gp.gmm.invCovMeans[1][d] = 0
       /\ gp.gmm.gconsts = <<0>>

-----------------------------------------------------------------------------
(* Specification of _create_nn_extract_st_BN on its own *)

\* a bundle of one-column layers: bn_position sigmoid layers and a linear
\* one up to the bottleneck, then, from index bn_position + 3, hidden
\* sigmoid layers and a linear one on the five spliced columns
NNWeight == SC \div 2
NNBias == SC \div 10

BundleKeys(bn_position, hidden, context) ==
    {InputMeanKey, InputStdKey, BnMeanKey, BnStdKey, ContextKey}
    \cup {WKey(i) : i \in 1..(bn_position + 1)}
    \cup {BKey(i) : i \in 1..(bn_position + 1)}
    \cup {WKey(i) : i \in (bn_position + 3)..(bn_position + 3 + hidden)}
    \cup {BKey(i) : i \in (bn_position + 3)..(bn_position + 3 + hidden)}

BundleEntry(key, bn_position, context) ==
    IF key = ContextKey THEN context
    ELSE IF key = InputMeanKey THEN <<-SC>>
    ELSE IF key = InputStdKey THEN <<2 * SC>>
    ELSE IF key = BnMeanKey THEN <<NNBias, 0, 0, 0, -NNBias>>
    ELSE IF key = BnStdKey THEN <<SC, SC, 2 * SC, SC, SC>>
    ELSE IF key = WKey(bn_position + 3)
         THEN <<<<NNWeight>>, <<-NNWeight>>, <<SC>>, <<NNWeight>>, <<SC>>>>
    ELSE IF key[1] = "W" THEN <<<<IF key[2] = 1 THEN 2 * SC ELSE -NNWeight>>>>
    ELSE <<NNBias>>

Bundle(bn_position, hidden, context) ==
    [key \in BundleKeys(bn_position, hidden, context) |->
        BundleEntry(key, bn_position, context)]

\* a bundle with one entry missing
Without(param_dict, key) ==
    [k \in DOMAIN param_dict \ {key} |-> param_dict[k]]

\* a bundle that also names a layer at the index after the bottleneck
\* layer, on the five spliced columns
WithNext(param_dict, bn_position) ==
    (WKey(bn_position + 2) :> param_dict[WKey(bn_position + 3)])
    @@ (BKey(bn_position + 2) :> param_dict[BKey(bn_position + 3)])
    @@ param_dict

NNStep == {SC \div 10, SC \div 4}
NNPositions == {1, 2}
NNHidden == {0, 1}
NNMissing == {ContextKey, WKey(1), BKey(4), BnStdKey}

\* an input of n rows of one column, rising by step
NNInput(n, step) == Vec([r \in 1..n |-> <<r * step>>])

InitNN ==
    /\ Idle({"nn"})
    /\ \E n \in 0..MaxRows :
       \E step \in NNStep :
       \E bn \in NNPositions :
       \E hidden \in NNHidden :
       \E full \in BOOLEAN :
       \E key \in NNMissing :
       \E next \in BOOLEAN :
       \E pd \in {IF full THEN Bundle(bn, hidden, 5)
                  ELSE Without(Bundle(bn, hidden, 5), key)} :
           nn = [NnIdle EXCEPT
                    !.X = NNInput(n, step), !.bn_position = bn,
                    !.param_dict = IF next /\ WKey(bn + 3) \in DOMAIN pd
                                      /\ BKey(bn + 3) \in DOMAIN pd
                                   THEN WithNext(pd, bn) ELSE pd]

NNCall ==
    /\ nn.param_dict # <<>> /\ ~nn.called
    /\ \E r \in {CreateNnExtractStBN(nn.X, nn.param_dict, nn.bn_position)} :
           nn' = [nn EXCEPT !.called = TRUE, !.exc = r.exc, !.Y1 = r.Y1,
                            !.Y = r.Y, !.spliced = r.spliced,
                            !.used = r.used]
    /\ UNCHANGED <<fr, vd, gp, pr, rng, th, fn>>

SpecNN == InitNN /\ [][NNCall]_vars

\* C10: the forward pass splices a stage-1 output Y of n >= 21 rows into
\* n - 20 rows, and spliced row j is Y[j], Y[j+5], Y[j+10], Y[j+15] and
\* Y[j+20] side by side in this order.
C10_Splice ==
    (nn.called /\ nn.exc = "none" /\ Len(nn.Y) >= 21)
    => /\ Len(nn.spliced) = Len(nn.Y) - 20
       /\ Len(nn.Y1) = Len(nn.Y) - 20
       /\ \A j \in 1..Len(nn.spliced) :
            nn.spliced[j] = nn.Y[j] \o nn.Y[j + 5] \o nn.Y[j + 10]
                            \o nn.Y[j + 15] \o nn.Y[j + 20]

\* C10 happens: a stage-1 output of more than 21 different rows was spliced
C10_Witness ==
    /\ nn.called /\ nn.exc = "none" /\ Len(nn.Y) = 23
    /\ \A i, j \in 1..Len(nn.Y) : i # j => nn.Y[i] # nn.Y[j]
    /\ Len(nn.spliced) = 3

\* the layer indices of a bundle of num_of_layers layers in the order the
\* forward pass reads them
LayersRead(bn_position, num_of_layers) ==
    Arange(1, bn_position + 2)
    \o Arange(bn_position + 3, Max2(num_of_layers + 2, bn_position + 4))

\* C11 as claimed: the layer indices used by a forward pass are consecutive,
\* 1, 2, 3, ... with no index skipped.
C11_AsClaimed ==
    (nn.called /\ nn.exc = "none")
    => nn.used = Arange(1, Len(nn.used) + 1)

\* C11: a forward pass reads the layers 1..bn_position+1 in stage 1 and
\* bn_position+3..num_of_layers+1 in stage 2 (at least bn_position+3), in
\* rising order and each once; index bn_position+2 is never read, and a
\* pass that fails has read a prefix of these.
C11_LayersUsed ==
    nn.called
    => /\ \E k \in 0..Len(nn.used) :
            /\ k <= Len(LayersRead(nn.bn_position, NumOfLayers(nn.param_dict)))
            /\ nn.used = SubSeq(LayersRead(nn.bn_position,
                                           NumOfLayers(nn.param_dict)), 1, k)
            /\ k = Len(nn.used)
       /\ nn.exc = "none"
          => nn.used = LayersRead(nn.bn_position, NumOfLayers(nn.param_dict))
       /\ \A k \in 1..Len(nn.used) : nn.used[k] # nn.bn_position + 2

\* C11 happens: a pass over rows that reach stage 2 read three stage-1 layers
\* and two stage-2 layers
C11_Witness ==
    /\ nn.called /\ nn.exc = "none" /\ Len(nn.Y1) >= 1
    /\ nn.bn_position = 2
    /\ nn.used = <<1, 2, 3, 5, 6>>

-----------------------------------------------------------------------------
(* Specification of BottleneckProcessor.process *)

\* the signals: blocks of 5 ms, silent up to the block where a tone sets in
Tone == (2 * SC) \div 5
ProcRates == {TargetRate \div 2, TargetRate}
ProcBlocks == {1, 3, 7, MaxBlocks - 1, MaxBlocks}
ProcOnsets == {6, 7, MaxBlocks + 2}
ProcContexts == {4, 5}

AudioOf(rate, blocks, onset) ==
    [data |-> Vec([k \in 1..((blocks * rate) \div 200) |->
                  IF ((k - 1) * 200) \div rate >= onset - 1 THEN Tone ELSE 0]),
     sample_rate |-> rate]

\* the bundles: whole ones with the bottleneck at position 2, one of them
\* with a hidden layer more; one with the last layer and one with the
\* context missing; and one with the bottleneck at position 3
ProcBundles ==
    {Bundle(2, 0, c) : c \in ProcContexts}
    \cup {Bundle(2, 1, 4), Bundle(3, 0, 4)}
    \cup {Without(Bundle(2, 0, 4), WKey(5))}
    \cup {Without(Bundle(2, 0, 4), ContextKey)}

Init ==
    /\ Idle({"pr"})
    /\ rng \in 0..(Len(RandTable) - 1)
    /\ \E rate \in ProcRates :
       \E blocks \in ProcBlocks :
       \E onset \in ProcOnsets :
       \E weights_data \in ProcBundles :
       \E warnErr \in BOOLEAN :
       \E weights \in {"BabelMulti", "FisherTri", "Babel"} :
       \E files \in {ExpectedFiles, {"BabelMulti", "FisherMono"}, {}} :
           /\ (weights = "BabelMulti" /\ files = ExpectedFiles)
              \/ (blocks = MaxBlocks /\ onset = 1 /\ ~warnErr)
           /\ pr = [ProcCall(AudioOf(rate, blocks, onset), weights_data,
                             [warnErr |-> warnErr, floatDim |-> FALSE])
                    EXCEPT !.weights = weights, !.files = files,
                           !.pc = "New", !.steps = <<>>]

Constructing ==
    /\ pr.pc = "New"
    /\ pr' = ProcInit(pr)
    /\ UNCHANGED <<fr, vd, gp, nn, rng, th, fn>>

Resampling ==
    /\ pr.pc = "Loaded"
    /\ pr' = ProcResample(pr, rng)
    /\ rng' = RandAfter(rng, Len(Resample(pr.audio, TargetRate).data))
    /\ UNCHANGED <<fr, vd, gp, nn, th, fn>>

FrontEnding ==
    /\ pr.pc = "Resampled"
    /\ pr' = ProcFrontEnd(pr)
    /\ UNCHANGED <<fr, vd, gp, nn, rng, th, fn>>

DetectingVoice ==
    /\ pr.pc = "FrontEnded"
    /\ pr' = ProcVad(pr)
    /\ UNCHANGED <<fr, vd, gp, nn, rng, th, fn>>

Normalising ==
    /\ pr.pc = "VoicedDetected"
    /\ pr' = ProcNormalise(pr)
    /\ UNCHANGED <<fr, vd, gp, nn, rng, th, fn>>

Encoding ==
    /\ pr.pc = "Normalized"
    /\ pr' = ProcEncode(pr)
    /\ UNCHANGED <<fr, vd, gp, nn, rng, th, fn>>

Evaluating ==
    /\ pr.pc = "Encoded"
    /\ pr' = ProcForward(pr)
    /\ UNCHANGED <<fr, vd, gp, nn, rng, th, fn>>

Timestamping ==
    /\ pr.pc = "Evaluated"
    /\ pr' = ProcTimestamps(pr)
    /\ UNCHANGED <<fr, vd, gp, nn, rng, th, fn>>

Next ==
    \/ Constructing
    \/ Resampling \/ FrontEnding \/ DetectingVoice \/ Normalising
    \/ Encoding \/ Evaluating \/ Timestamping

Spec == Init /\ [][Next]_vars

\* whether the run is past the step named
Past(step) == \E k \in 1..Len(pr.steps) : pr.steps[k] = step

\* whether the run was given a signal whose samples are all zero
Silent == \A k \in 1..Len(pr.audio.data) : pr.audio.data[k] = 0

\* whether the mask of the run has no true entry
NoneVoiced == \A i \in 1..Len(pr.vad) : ~pr.vad[i]

\* the step the run was at when it failed or stopped
LastStep == IF pr.steps = <<>> THEN "New" ELSE pr.steps[Len(pr.steps)]

C2_NoVoiceIsFatal ==
    /\ (Past("VoicedDetected") /\ pr.pc # "VoicedDetected"
           /\ NoneVoiced) =>
          /\ pr.pc = "Failed" /\ pr.exc = "RuntimeError"
          /\ ~Past("Normalized") /\ ~pr.returned
          /\ pr.nn_output = <<>> /\ pr.times = <<>>
    /\ (Past("VoicedDetected") /\ ~NoneVoiced) =>
          pr.exc # "RuntimeError"

\* C2 happens: a mask of several frames, none voiced, ended the run
C2_Witness ==
    /\ pr.pc = "Failed" /\ pr.exc = "RuntimeError"
    /\ Len(pr.vad) >= 2 /\ NoneVoiced
    /\ ~Silent

\* C3 as claimed: process called on a signal whose samples are all zero
\* never returns a feature matrix, whatever dither noise is drawn.
C3_AsClaimed == Silent => ~pr.returned

\* whether the forward pass of the run has been made, to its end or not
Forwarded == Past("Encoded") /\ pr.pc # "Encoded"

\* C12 as claimed: the bottleneck position used by process comes from the
\* bundle, so that a bundle with its bottleneck at another position is
\* evaluated with that many sigmoid layers and one linear layer in stage 1.
C12_AsClaimed ==
    (Forwarded /\ Len(pr.used) >= 3)
    => Cardinality({k \in 1..Len(pr.used) :
                       pr.used[k] <= BnPositionOfBundle + 1})
       = BnPositionOfBundle + 1

\* C12: the context radius and the layer count used by process come from
\* the bundle, the bottleneck position does not: whatever the bundle, the
\* forward pass reads the layers 1, 2, 3 in stage 1 and the layers from 5
\* to num_of_layers + 1 in stage 2, or a prefix of these when it fails.
C12_PositionFixed ==
    Forwarded
    => /\ pr.context = pr.weights_data[ContextKey]
       /\ \E k \in 0..Len(LayersRead(2, NumOfLayers(pr.weights_data))) :
            pr.used = SubSeq(LayersRead(2, NumOfLayers(pr.weights_data)),
                             1, k)
       /\ ~(pr.pc = "Failed" /\ LastStep = "Encoded")
          => pr.used = LayersRead(2, NumOfLayers(pr.weights_data))

\* C12 happens: a bundle with four layers up to its bottleneck was taken
\* through stage 1 of the forward pass, and three of them were read
C12_Witness ==
    /\ Forwarded /\ BnPositionOfBundle = 3
    /\ pr.used = <<1, 2, 3>>

\* whether the file of the weights lacks an entry that process reads
Lacking ==
    \E key \in BundleKeys(BnPosition, 0, 0) : key \notin DOMAIN pr.weights_data

\* C13 as claimed: with a weights file that lacks an entry the construction
\* of the processor fails, so that process is never called on it, and no
\* run of process ends with a key error.
C13_AsClaimed ==
    /\ Lacking => ~Past("Loaded")
    /\ ~(pr.pc = "Failed" /\ Past("Loaded") /\ pr.exc = "KeyError")

\* C14: the normalisation in process subtracts one and the same vector from
\* every frame of the filterbank matrix, voiced or not, and that vector is
\* the mean, band by band, of the frames the mask marks voiced (to the last
\* digit kept).
C14_VoicedMean ==
    Past("Normalized")
    => LET raw == FbankHtk(pr.signal, FrameLength, FrameOverlap).fea
           voiced == {i \in 1..Len(raw) : pr.vad[i]}
           n == Cardinality(voiced)
           Total[S \in SUBSET voiced, j \in 1..Len(raw[1])] ==
               IF S = {} THEN 0
               ELSE LET i == CHOOSE x \in S : TRUE
                    IN  raw[i][j] + Total[S \ {i}, j]
       IN  /\ Len(pr.fea) = Len(raw) /\ Len(pr.vad) = Len(raw)
           /\ \A i \in 1..Len(raw) : \A j \in 1..Len(raw[i]) :
                /\ raw[i][j] - pr.fea[i][j] = raw[1][j] - pr.fea[1][j]
                /\ Abs(n * (raw[i][j] - pr.fea[i][j]) - Total[voiced, j])
                   < n

\* C14 happens: a matrix with voiced and unvoiced frames of different
\* energies was normalised
C14_Witness ==
    /\ Past("Normalized")
    /\ \E i, k \in 1..Len(pr.vad) :
          pr.vad[i] /\ ~pr.vad[k] /\ pr.fea[i] # pr.fea[k]

\* C15: process pads the normalised filterbank matrix of T rows to T + 30
\* rows: 15 copies of its first row, then its T rows unchanged and in
\* order, then 15 copies of its last row.
C15_Padding ==
    (Past("Normalized") /\ pr.pc # "Normalized")
    => /\ Len(pr.padded) = Len(pr.fea) + 30
       /\ \A i \in 1..15 : pr.padded[i] = pr.fea[1]
       /\ \A i \in 1..Len(pr.fea) : pr.padded[15 + i] = pr.fea[i]
       /\ \A i \in 1..15 :
            pr.padded[15 + Len(pr.fea) + i] = pr.fea[Len(pr.fea)]

\* C15 happens: a matrix of several rows, the first unlike the last, was
\* padded
C15_Witness ==
    /\ Past("Encoded") /\ Len(pr.fea) >= 3
    /\ pr.fea[1] # pr.fea[Len(pr.fea)]
    /\ Len(pr.padded) = Len(pr.fea) + 30

C17_AsClaimed ==
    pr.returned
    => /\ \A i \in 1..(Len(pr.starts) - 1) :
            pr.starts[i + 1] - pr.starts[i] = pr.frames.frame_shift
       /\ pr.frames.frame_length = FrameLength

\* whether the timestamp step of the run has been made, to its end or not
Stamped == Past("Evaluated") /\ pr.pc # "Evaluated"

\* C18: whenever process returns, the duration of the signal lies between
\* the first and the last timestamp; a run whose duration does not lie
\* between them, or that has fewer than two timestamps, fails with an error
\* and returns nothing.
C18_DurationWithin ==
    /\ pr.returned
       => /\ Len(pr.times) >= 2
          /\ pr.times[1] * pr.audio.sample_rate
             <= Len(pr.audio.data) * SC
          /\ Len(pr.audio.data) * SC
             <= pr.times[Len(pr.times)] * pr.audio.sample_rate
    /\ Stamped
       => LET n == Len(pr.nn_output)
              bounds == FramesBoundaries(
                  n,
                  SamplesPer(n, Len(pr.audio.data), pr.audio.sample_rate,
                             FrameLength),
                  SamplesPer(n, Len(pr.audio.data), pr.audio.sample_rate,
                             FrameOverlap))
          IN  (\/ n < 2
               \/ bounds[1][1] + bounds[1][2] > 2 * n
               \/ bounds[n][1] + bounds[n][2] < 2 * n)
              => /\ pr.pc = "Failed" /\ ~pr.returned
                 /\ pr.exc \in {"AssertionError", "IndexError"}
                 /\ pr.times = <<>>

\* C18 happens: a run returned several timestamps, the first of them
\* before the duration
C18_Witness ==
    /\ pr.returned /\ Len(pr.times) >= 3
    /\ pr.times[1] * pr.audio.sample_rate < Len(pr.audio.data) * SC

\* C27: for a voiced 8 kHz signal of N >= 200 samples and a weight bundle
\* with context radius c, the number of rows process returns is
\* T + 10 - 2c, where T = floor((N - 200) / 80) + 1 is the number of
\* filterbank frames (padding adds 30 rows, context stacking removes 2c, the
\* splice removes 20); it equals T exactly when c = 5.
C27_RowCount ==
    (pr.returned /\ pr.audio.sample_rate = TargetRate
                 /\ Len(pr.audio.data) >= 200)
    => LET T == (Len(pr.audio.data) - 200) \div 80 + 1
           c == pr.weights_data[ContextKey]
       IN  /\ Len(pr.signal) = Len(pr.audio.data)
           /\ Len(pr.fea) = T
           /\ Len(pr.padded) = T + 30
           /\ Len(pr.nn_input) = T + 30 - 2 * c
           /\ Len(pr.nn_output) = Len(pr.nn_input) - 20
           /\ Len(pr.nn_output) = T + 10 - 2 * c
           /\ (Len(pr.nn_output) = T) = (c = 5)

\* C27 happens: a voiced 8 kHz signal of 600 samples, six filterbank frames,
\* gave eight rows under a context of 4
C27_Witness ==
    /\ pr.returned /\ ~NoneVoiced /\ pr.audio.sample_rate = TargetRate
    /\ Len(pr.audio.data) = 600 /\ Len(pr.fea) = 6
    /\ pr.weights_data[ContextKey] = 4
    /\ Len(pr.nn_output) = 8

\* the energy of the samples 80 * i to 80 * i + 199 of the dithered signal
\* of the run, i counted from 0
EnergyAt(i) ==
    FSum(Vec([j \in 1..200 |->
             Mul(pr.signal[80 * i + j], pr.signal[80 * i + j])]))

\* C28: in every process call, the voiced mask has exactly one entry per row
\* of the filterbank matrix, and mask entry i and filterbank row i are
\* computed from the same samples, positions 80*i to 80*i+199, of the same
\* dithered signal, for every signal length of at least 200 samples.  Here,
\* right after the mask is computed: the energy the mask entry i is decided
\* on and the filterbank row i are those of these samples.
C28_SameFrames ==
    (pr.pc = "VoicedDetected" /\ Len(pr.signal) >= 200)
    => /\ Len(pr.fea) = (Len(pr.signal) - 200) \div 80 + 1
       /\ Len(pr.vad) = Len(pr.fea)
       /\ Len(pr.energy) = Len(pr.fea)
       /\ \A i \in 1..Len(pr.fea) :
            \E e \in {EnergyAt(i - 1)} :
                /\ pr.starts[i] = 80 * (i - 1)
                /\ pr.energy[i] = e
                /\ pr.fea[i] = <<FLog(FMax(SC, e))>>

\* C28 happens: a mask of six entries, some of them true, beside a
\* filterbank matrix whose rows differ
C28_Witness ==
    /\ pr.pc = "VoicedDetected" /\ Len(pr.signal) = 600
    /\ Len(pr.vad) = 6 /\ ~NoneVoiced
    /\ \E i, k \in 1..Len(pr.fea) : pr.fea[i] # pr.fea[k]
    /\ \E i, k \in 1..Len(pr.energy) : pr.energy[i] # pr.energy[k]

-----------------------------------------------------------------------------
(* Specification of two calls of process on one processor, one after the
   other or on two threads, with one and the same signal *)

InitCalls ==
    /\ Idle({"pr", "th"}) /\ pr = PrIdle
    /\ rng \in 0..(Len(RandTable) - 1)
    /\ \E onset \in ProcOnsets :
       \E call \in {ProcCall(AudioOf(TargetRate, MaxBlocks, onset),
                             Bundle(2, 0, 4),
                             [warnErr |-> FALSE, floatDim |-> FALSE])} :
           th = [ThIdle EXCEPT !.calls = <<call, call>>, !.start = rng,
                               !.at = <<-1, -1>>]

\* whether a call is between its first statement and its end
Running(p) == p.pc \notin {"Loaded", "Timestamped", "Failed"}

\* the next statements of call t; the dither is drawn by the first of them
Calling(t) ==
    /\ th.calls # <<>>
    /\ th.calls[t].pc \notin {"Timestamped", "Failed"}
    /\ \E q \in {ProcStep(th.calls[t], rng)} :
          /\ th' = [th EXCEPT
                       !.calls[t] = q,
                       !.at[t] = IF th.calls[t].pc = "Loaded" THEN rng ELSE @,
                       !.apart = @ /\ ~Running(th.calls[3 - t])]
          /\ rng' = IF th.calls[t].pc = "Loaded"
                    THEN RandAfter(rng, Len(q.drawn)) ELSE rng
    /\ UNCHANGED <<fr, vd, gp, nn, pr, fn>>

\* the caller puts the generator back, while no call is running:
\* np.random.seed with the seed it had at the start
Seeding ==
    /\ th.calls # <<>> /\ rng # th.start
    /\ \A t \in {1, 2} : ~Running(th.calls[t])
    /\ rng' = th.start
    /\ th' = [th EXCEPT !.seeded = TRUE]
    /\ UNCHANGED <<fr, vd, gp, nn, pr, fn>>

NextCalls == (\E t \in {1, 2} : Calling(t)) \/ Seeding

SpecCalls == InitCalls /\ [][NextCalls]_vars

\* whether both calls have come to their end
BothDone ==
    /\ th.calls # <<>>
    /\ \A t \in {1, 2} : th.calls[t].pc \in {"Timestamped", "Failed"}

C20_AsClaimed ==
    (BothDone /\ ~th.seeded)
    => /\ rng = th.start
       /\ \A t \in {1, 2} :
            th.calls[t]
            = Process(ProcCall(th.calls[t].audio, th.calls[t].weights_data,
                               th.calls[t].lib), th.start)

-----------------------------------------------------------------------------
(* Specification of _mel_fbank_mx on its own *)

MelWindows == {-8, -6, 9, 12}
MelLow == {0, 64 * SC, 1000 * SC, 3900 * SC, 4400 * SC}
MelHigh == {0, 500 * SC, 3800 * SC, 5000 * SC}

InitMel ==
    /\ Idle({"fn"})
    /\ \E w \in MelWindows, n \in 1..MaxChans, lo \in MelLow, hi \in MelHigh :
           fn = [f |-> "_mel_fbank_mx", called |-> FALSE, winlen_nfft |-> w,
                 fs |-> TargetRate, numchans |-> n, lofreq |-> lo,
                 hifreq |-> hi, exc |-> "none", mfb |-> <<>>, cind |-> <<>>]

MelCall ==
    /\ fn.f = "_mel_fbank_mx" /\ ~fn.called
    /\ \E r \in {MelFbankMx(fn.winlen_nfft, fn.fs, fn.numchans, fn.lofreq,
                             fn.hifreq)} :
           fn' = [fn EXCEPT !.called = TRUE, !.exc = r.exc, !.mfb = r.mfb,
                            !.cind = r.cind]
    /\ UNCHANGED <<fr, vd, gp, nn, pr, rng, th>>

SpecMel == InitMel /\ [][MelCall]_vars

\* the bands (from 1) in which row r of the matrix has a weight that is not 0
BandsOf(r) == {c \in 1..Len(fn.mfb[r]) : fn.mfb[r][c] # 0}

\* C23: in the matrix built by _mel_fbank_mx every FFT bin (row) has a
\* non-zero weight in at most two bands, and when it has two they are
\* adjacent bands i and i+1.
C23_TwoAdjacentBands ==
    (fn.f = "_mel_fbank_mx" /\ fn.called /\ fn.exc = "none")
    => \A r \in 1..Len(fn.mfb) :
         /\ Cardinality(BandsOf(r)) <= 2
         /\ \A c, d \in BandsOf(r) : Abs(c - d) <= 1

\* C23 happens: a matrix of three bands or more with a bin that weighs in
\* two adjacent bands, and a bin that weighs in the last band only
C23_Witness ==
    /\ fn.f = "_mel_fbank_mx" /\ fn.called /\ fn.exc = "none"
    /\ fn.numchans >= 3
    /\ \E r \in 1..Len(fn.mfb) : BandsOf(r) = {2, 3}
    /\ \E r \in 1..Len(fn.mfb) : BandsOf(r) = {fn.numchans}

-----------------------------------------------------------------------------
(* Specification of AudioData.resample on its own.  The data of a signal   *)
(* is the sequence of its rows, one sample a channel; a signal of one      *)
(* dimension has rows of one sample.                                       *)

ResampleRates == {TargetRate \div 2, TargetRate, 2 * TargetRate, 11025}

\* the signals: of one dimension, or of two with one or two channels
ResampleAudios ==
    {[data |-> d, ndim |-> 1, sample_rate |-> r] :
        d \in SeqsOf({<<0>>, <<Tone>>}, 0, MaxLen), r \in ResampleRates}
    \cup {[data |-> d, ndim |-> 2, sample_rate |-> r] :
              d \in SeqsOf({<<0>>, <<Tone>>}, 0, MaxLen - 1)
                   \cup SeqsOf({<<0, Tone>>, <<Tone, Tone>>}, 0, MaxLen - 1),
              r \in ResampleRates}

\* AudioData.nchannels; a signal of two dimensions and no sample has no row
\* to tell its channels here
Nchannels(audio) ==
    IF audio.ndim = 1 THEN 1
    ELSE IF audio.data = <<>> THEN 0 ELSE Len(audio.data[1])

InitResample ==
    /\ Idle({"fn"})
    /\ \E a \in ResampleAudios, fs \in ResampleRates :
           fn = [f |-> "resample", called |-> FALSE, audio |-> a,
                 sample_rate |-> fs, exc |-> "none", self |-> FALSE,
                 returned |-> <<>>]

ResampleCall ==
    /\ fn.f = "resample" /\ ~fn.called
    /\ fn' = IF ResampleRaises(fn.audio, fn.sample_rate)
             THEN [fn EXCEPT !.called = TRUE, !.exc = "ValueError"]
             ELSE [fn EXCEPT !.called = TRUE,
                             !.self = ResampleSelf(fn.audio, fn.sample_rate),
                             !.returned = Resample(fn.audio, fn.sample_rate)]
    /\ UNCHANGED <<fr, vd, gp, nn, pr, rng, th>>

SpecResample == InitResample /\ [][ResampleCall]_vars

\* the number of samples the claim gives: int(nsamples * fs / sample_rate)
ClaimedNsamples == (Len(fn.audio.data) * fn.sample_rate) \div fn.audio.sample_rate

\* C24 as claimed: for every AudioData and target rate fs, resample(fs)
\* returns an AudioData whose sample_rate is fs, whose channel count is
\* unchanged and whose number of samples is int(nsamples * fs /
\* sample_rate); when fs equals the current rate the same object is returned
\* and nothing is changed.
C24_AsClaimed ==
    (fn.f = "resample" /\ fn.called)
    => /\ fn.exc = "none"
       /\ fn.returned.sample_rate = fn.sample_rate
       /\ fn.returned.ndim = fn.audio.ndim
       /\ Len(fn.returned.data) = ClaimedNsamples
       /\ \A k \in 1..Len(fn.returned.data) :
            Len(fn.returned.data[k]) = Nchannels(fn.audio)
       /\ fn.sample_rate = fn.audio.sample_rate
          => fn.self /\ fn.returned = fn.audio

\* C24 amended: for every AudioData and target rate fs that differs from
\* the current rate, resample(fs) raises ValueError when int(nsamples * fs /
\* sample_rate) is 0 and otherwise returns an AudioData whose sample_rate is
\* fs, whose channel count is unchanged and whose number of samples is
\* int(nsamples * fs / sample_rate); when fs equals the current rate the same
\* object is returned and nothing is changed.
C24_Resampled ==
    (fn.f = "resample" /\ fn.called)
    => IF fn.sample_rate = fn.audio.sample_rate
       THEN fn.exc = "none" /\ fn.self /\ fn.returned = fn.audio
       ELSE IF ClaimedNsamples = 0
       THEN fn.exc = "ValueError" /\ fn.returned = <<>>
       ELSE /\ fn.exc = "none" /\ ~fn.self
            /\ fn.returned.sample_rate = fn.sample_rate
            /\ fn.returned.ndim = fn.audio.ndim
            /\ Len(fn.returned.data) = ClaimedNsamples
            /\ \A k \in 1..Len(fn.returned.data) :
                 Len(fn.returned.data[k]) = Nchannels(fn.audio)

\* C24 happens: a stereo signal of three samples at 11025 Hz resampled to
\* 8000 Hz, which gives two samples of two channels
C24_Witness ==
    /\ fn.f = "resample" /\ fn.called /\ fn.exc = "none"
    /\ fn.audio.sample_rate = 11025 /\ fn.sample_rate = TargetRate
    /\ Len(fn.audio.data) = 3 /\ fn.audio.ndim = 2
    /\ Len(fn.audio.data[1]) = 2
    /\ Len(fn.returned.data) = 2 /\ Len(fn.returned.data[1]) = 2

-----------------------------------------------------------------------------
(* Specification of _uppertri_indices on its own *)

InitTri ==
    /\ Idle({"fn"})
    /\ \E dim \in 1..MaxDim, isdiag \in BOOLEAN :
           fn = [f |-> "_uppertri_indices", called |-> FALSE, dim |-> dim,
                 isdiag |-> isdiag, utr |-> <<>>, utc |-> <<>>]

TriCall ==
    /\ fn.f = "_uppertri_indices" /\ ~fn.called
    /\ \E r \in {UppertriIndices(fn.dim, fn.isdiag)} :
           fn' = [fn EXCEPT !.called = TRUE, !.utr = r.utr, !.utc = r.utc]
    /\ UNCHANGED <<fr, vd, gp, nn, pr, rng, th>>

SpecTri == InitTri /\ [][TriCall]_vars

\* C26: for every dimension D, _uppertri_indices in full-covariance mode
\* returns D(D+1)/2 index pairs in which every pair (r, c) with
\* 0 <= r <= c < D occurs exactly once and the first D pairs are the
\* diagonal pairs (i, i), so that the positions from D onward (the ones
\* _gmm_eval_prep doubles) are exactly the off-diagonal pairs; in diagonal
\* mode it returns the D pairs (i, i).
C26_UpperTriangle ==
    (fn.f = "_uppertri_indices" /\ fn.called)
    => /\ Len(fn.utr) = Len(fn.utc)
       /\ \A p \in 1..fn.dim : fn.utr[p] = p - 1 /\ fn.utc[p] = p - 1
       /\ IF fn.isdiag THEN Len(fn.utr) = fn.dim
          ELSE /\ 2 * Len(fn.utr) = fn.dim * (fn.dim + 1)
               /\ \A r \in 0..(fn.dim - 1) : \A c \in r..(fn.dim - 1) :
                    Cardinality({p \in 1..Len(fn.utr) :
                                    fn.utr[p] = r /\ fn.utc[p] = c}) = 1
               /\ \A p \in 1..Len(fn.utr) :
                    /\ 0 <= fn.utr[p] /\ fn.utr[p] <= fn.utc[p]
                    /\ fn.utc[p] < fn.dim
                    /\ (p > fn.dim) = (fn.utr[p] # fn.utc[p])

\* C26 happens: the indices of a full covariance in three dimensions, the
\* diagonal first, then the pairs one and two columns off it
C26_Witness ==
    /\ fn.f = "_uppertri_indices" /\ fn.called /\ ~fn.isdiag /\ fn.dim = 3
    /\ fn.utr = <<0, 1, 2, 0, 1, 0>>
    /\ fn.utc = <<0, 1, 2, 1, 2, 2>>

-----------------------------------------------------------------------------
(* AudioData.astype.  A type is named by its numpy name; samples of the    *)
(* integer types are the integers themselves, samples of the float types   *)
(* are numbers at the model's resolution.                                  *)

\* _is_valid_dtype
SupportedTypes == {"int16", "int32", "float32", "float64"}

IsIntType(dtype) == dtype \in {"int16", "int32"}

\* the table of the module docstring: the least and the largest sample
TypeMin(dtype) ==
    CASE dtype = "int16" -> -(2^15)
      [] dtype = "int32" -> -2147483647 - 1
      [] OTHER -> -SC

TypeMax(dtype) ==
    CASE dtype = "int16" -> 2^15 - 1
      [] dtype = "int32" -> 2147483647
      [] OTHER -> SC

\* is_valid: the type is supported and every sample lies strictly between
\* the least and the largest
IsValid(audio) ==
    /\ audio.dtype \in SupportedTypes
    /\ \A k \in 1..Len(audio.data) :
         TypeMin(audio.dtype) < audio.data[k]
         /\ audio.data[k] < TypeMax(audio.dtype)

\* x * 2**31 of a float, with the fraction cut off: 2^31 / SC = 214748.3648
TimesTwo31(x) == Sgn(x) * (Abs(x) * 214748 + (Abs(x) * 3648) \div SC)

\* x / 2**31 of an integer, as a float
OverTwo31(x) == Div(TruncDiv(x, 2^11), 2^20)

\* the array `data` that astype computes from the sample x before the last
\* cast, as that cast sees it: a float when the target is a float type, the
\* number with its fraction cut off when the target is an integer type.
\* isType tells whether dtype is one of the classes np.int16, np.int32 that
\* the branches test with `is`, or another name of the type (np.dtype(...),
\* a string), for which every such test is false.
Scaled(x, from, dtype, isType) ==
    IF from = "int16"
    THEN (IF isType /\ dtype = "int32" THEN x * 2^15
          ELSE IF IsIntType(dtype) THEN TruncDiv(x, 2^15)
          ELSE Div(x, 2^15))
    ELSE IF from = "int32"
    THEN (IF isType /\ dtype = "int16" THEN TruncDiv(x, 2^15)
          ELSE IF IsIntType(dtype) THEN TruncDiv(TruncDiv(x, 2^15), 2^16)
          ELSE OverTwo31(x))
    ELSE (IF isType /\ dtype = "int16" THEN TruncDiv(x * 2^15, SC)
          ELSE IF isType /\ dtype = "int32" THEN TimesTwo31(x)
          ELSE IF IsIntType(dtype) THEN TruncDiv(x, SC)
          ELSE x)

\* data.astype(dtype) of one number: a number outside an integer type is
\* undefined behaviour of the C cast, which wraps on some machines and
\* saturates on others; inside the type the number is kept
Cast(x, dtype) ==
    IF ~IsIntType(dtype) \/ (TypeMin(dtype) <= x /\ x <= TypeMax(dtype))
    THEN {x}
    ELSE {Int16(x), IF x > 0 THEN TypeMax(dtype) ELSE TypeMin(dtype)}

\* the arrays that Cast can give for an array
RECURSIVE CastAll(_, _)
CastAll(xs, dtype) ==
    IF xs = <<>> THEN {<<>>}
    ELSE {<<c>> \o rest : c \in Cast(Head(xs), dtype),
                          rest \in CastAll(Tail(xs), dtype)}

\* AudioData.astype(dtype): the set of what the call can give, [exc, self,
\* exact, data, dtype].  promote tells whether numpy widens an int16 array
\* multiplied by the Python integer 2**15 to int32 (before numpy 2) or
\* raises OverflowError.
AsType(audio, dtype, isType, promote) ==
    IF audio.dtype = dtype
    THEN {[exc |-> "none", self |-> TRUE, exact |-> audio.data,
           data |-> audio.data, dtype |-> audio.dtype]}
    ELSE IF dtype \notin SupportedTypes
    THEN {[exc |-> "ValueError", self |-> FALSE, exact |-> <<>>,
           data |-> <<>>, dtype |-> "none"]}
    ELSE IF audio.dtype = "int16" /\ isType /\ dtype = "int32" /\ ~promote
    THEN {[exc |-> "OverflowError", self |-> FALSE, exact |-> <<>>,
           data |-> <<>>, dtype |-> "none"]}
    ELSE {[exc |-> "none", self |-> FALSE, exact |-> exact, data |-> data,
           dtype |-> dtype] :
             exact \in {Vec([k \in 1..Len(audio.data) |->
                            Scaled(audio.data[k], audio.dtype, dtype,
                                   isType)])},
             data \in CastAll(Vec([k \in 1..Len(audio.data) |->
                                  Scaled(audio.data[k], audio.dtype, dtype,
                                         isType)]), dtype)}

-----------------------------------------------------------------------------
(* Specification of AudioData.astype on its own *)

AsTypeSamples(dtype) ==
    CASE dtype = "int16" -> {-32767, -200, 0, 1, 32766}
      [] dtype = "int32" -> {-2147483647, -(2^30), -(2^15), 0, 2^15, 2^30 - 1,
                             2^30, 2147483646}
      [] OTHER -> {1 - SC, -(SC \div 2), 0, 1, SC - 1}

InitAsType ==
    /\ Idle({"fn"})
    /\ \E from \in SupportedTypes, dtype \in SupportedTypes \cup {"uint8"},
          isType \in BOOLEAN, promote \in BOOLEAN :
       \E data \in SeqsOf(AsTypeSamples(from), 1, 2) :
           /\ Len(data) = 2 => (data[1] = 0 /\ isType /\ promote)
           /\ fn = [f |-> "astype", called |-> FALSE,
                    audio |-> [data |-> data, dtype |-> from,
                               sample_rate |-> TargetRate],
                    dtype |-> dtype, isType |-> isType, promote |-> promote,
                    exc |-> "none", self |-> FALSE, exact |-> <<>>,
                    out |-> <<>>, out_dtype |-> "none"]
           /\ IsValid(fn.audio)

AsTypeCall ==
    /\ fn.f = "astype" /\ ~fn.called
    /\ \E r \in AsType(fn.audio, fn.dtype, fn.isType, fn.promote) :
           fn' = [fn EXCEPT !.called = TRUE, !.exc = r.exc, !.self = r.self,
                            !.exact = r.exact, !.out = r.data,
                            !.out_dtype = r.dtype]
    /\ UNCHANGED <<fr, vd, gp, nn, pr, rng, th>>

SpecAsType == InitAsType /\ [][AsTypeCall]_vars

\* C29 as claimed: for every valid AudioData and every supported target
\* type (16-bit integer, 32-bit integer, 32-bit float, 64-bit float), astype
\* returns samples that lie within the target type's minimum and maximum,
\* with no integer overflow or wraparound in the conversion (the sample
\* stored is the number the conversion computed); in particular converting
\* 32-bit integer samples to 16-bit integers stays within -32768..32767.
C29_AsClaimed ==
    (fn.f = "astype" /\ fn.called /\ fn.exc = "none")
    => \A k \in 1..Len(fn.out) :
         /\ TypeMin(fn.dtype) <= fn.out[k] /\ fn.out[k] <= TypeMax(fn.dtype)
         /\ TypeMin(fn.dtype) <= fn.exact[k]
         /\ fn.exact[k] <= TypeMax(fn.dtype)
         /\ fn.out[k] = fn.exact[k]

=============================================================================
